---- MODULE Spec2Model ----
(***************************************************************************)
(* Draft orchestration core of fantasy-draft-simulator: the snake turn     *)
(* order, roster-slot eligibility, and the pick-commit protocol            *)
(* (recordPick and the commissioner's start / advance / pick handlers)     *)
(* running as concurrent request handlers over a shared key-value store.   *)
(* Every kv.get / kv.set is one atomic step of the store; the gets and     *)
(* sets of one Promise.all complete in any order.                          *)
(***************************************************************************)
EXTENDS Integers, Sequences, FiniteSets, TLC

(* ------------------------------ constants ------------------------------ *)

NUM_TEAMS == 8

NUM_ROUNDS == 5

TOTAL_PICKS == NUM_TEAMS * NUM_ROUNDS

POSITIONS == <<"QB", "RB", "WR", "TE">>

PositionSet == {POSITIONS[i] : i \in 1..Len(POSITIONS)}

Teams == 0..(NUM_TEAMS - 1)

(* ------------------------------- bounds -------------------------------- *)

\* Number of players the catalog fetch returns (at most TOP_N_PLAYERS).
NumPlayers == 44

\* Number of request handlers that may be in flight at once.
NumProcs == 2

\* Requests issued in a concurrent run.
MaxRequests == 4

\* Non-default inputs (restart, rejected request, advisor or human naming a
\* player other than the best eligible one) in a one-at-a-time run.
MaxDeviations == 1

\* The seedPlayers calls that may fail: the first MaxSeedFailures of them.
MaxSeedFailures == 1

\* Players in a list handed to a signal function on its own.
MaxPool == 2

\* Longest run of one position in a pick list handed to a signal function.
MaxRun == 5

Procs == 1..NumProcs

PlayerIds == 1..NumPlayers

NoPlayer == 0

(* ------------------------------ the catalog ---------------------------- *)

\* Position of a catalog player: the catalog cycles through the positions.
PlayerPosition(id) == POSITIONS[((id - 1) % Len(POSITIONS)) + 1]

\* Rank of a catalog player (lower is better): the catalog is sorted by rank.
PlayerRank(id) == id

\* The player list seedPlayers stores: sorted by rank.
SeededPlayers == [i \in 1..NumPlayers |-> i]

\* Age of a catalog player: every third one is a veteran, the others have the
\* age mapSleeperToPlayer gives a player whose age is unknown.
PlayerAge(id) == IF id % 3 = 0 THEN 30 ELSE 25

\* calculateTier: tier 1 = top 30, ..., tier 5 = 121 and beyond.
calculateTier(searchRank) ==
    IF searchRank <= 30 THEN 1
    ELSE IF searchRank <= 60 THEN 2
    ELSE IF searchRank <= 90 THEN 3
    ELSE IF searchRank <= 120 THEN 4
    ELSE 5

\* The Player object of a catalog player, as the signal functions read it.
PlayerRecord(id) ==
    [playerId |-> id, position |-> PlayerPosition(id), rank |-> PlayerRank(id),
     age |-> PlayerAge(id), tier |-> calculateTier(PlayerRank(id))]

PlayerRecords(ids) == [i \in 1..Len(ids) |-> PlayerRecord(ids[i])]

\* The persona assignment 'start' stores and 'advance' looks the team on the
\* clock up in: one persona per team, the same in every draft.
AssignedPersonas ==
    <<"drafter-balanced", "drafter-qb-first", "drafter-zero-rb", "drafter-risk-averse",
      "drafter-youth-movement", "drafter-contrarian", "drafter-value-hunter",
      "drafter-reactive">>

personaName(teamIndex) == AssignedPersonas[teamIndex + 1]

(* --------------------------- lib/types.ts ------------------------------ *)

CeilDiv(a, b) == (a + b - 1) \div b

\* getSnakeDraftPick without the reversal of even rounds.
getSnakeDraftPickNoReverse(pickNumber) ==
    [round |-> CeilDiv(pickNumber, NUM_TEAMS),
     teamIndex |-> (pickNumber - 1) % NUM_TEAMS]

getSnakeDraftPick(pickNumber) ==
    LET round == CeilDiv(pickNumber, NUM_TEAMS)
        pickInRound == (pickNumber - 1) % NUM_TEAMS
        isEvenRound == (round % 2 = 0)
    IN  [round |-> round,
         teamIndex |-> IF isEvenRound THEN NUM_TEAMS - 1 - pickInRound ELSE pickInRound]

slotKeyOf(position) ==
    CASE position = "QB" -> "qb"
      [] position = "RB" -> "rb"
      [] position = "WR" -> "wr"
      [] position = "TE" -> "te"

canDraftPosition(roster, position) ==
    IF roster[slotKeyOf(position)] = NoPlayer THEN TRUE
    ELSE IF roster.superflex = NoPlayer THEN TRUE
    ELSE FALSE

\* assignRosterSlot that gives up once the position's own slot is taken.
assignRosterSlotDedicatedOnly(roster, position) ==
    IF roster[slotKeyOf(position)] = NoPlayer THEN position
    ELSE "none"

\* The slot a pick fills, or "none" (null).
assignRosterSlot(roster, position) ==
    IF roster[slotKeyOf(position)] = NoPlayer THEN position
    ELSE IF roster.superflex = NoPlayer THEN "SUPERFLEX"
    ELSE "none"

createEmptyRoster(teamIndex) ==
    [teamIndex |-> teamIndex, qb |-> NoPlayer, rb |-> NoPlayer, wr |-> NoPlayer,
     te |-> NoPlayer, superflex |-> NoPlayer]

createInitialBoardState(humanTeamIndex) ==
    [picks |-> <<>>,
     currentPick |-> [pickNumber |-> 1, round |-> 1, teamIndex |-> 0,
                      isHuman |-> (humanTeamIndex = 0)],
     settings |-> [numTeams |-> NUM_TEAMS, numRounds |-> NUM_ROUNDS,
                   humanTeamIndex |-> humanTeamIndex],
     draftComplete |-> FALSE]

\* advanceCurrentPick that walks every round in ascending team order.
advanceCurrentPickAscending(currentPickNumber, settings) ==
    LET nextPickNumber == currentPickNumber + 1
        teamIndex == (nextPickNumber - 1) % NUM_TEAMS
    IN  [pickNumber |-> nextPickNumber, round |-> CeilDiv(nextPickNumber, NUM_TEAMS),
         teamIndex |-> teamIndex,
         isHuman |-> (teamIndex = settings.humanTeamIndex)]

advanceCurrentPick(currentPickNumber, settings) ==
    LET nextPickNumber == currentPickNumber + 1
        snake == getSnakeDraftPick(nextPickNumber)
    IN  [pickNumber |-> nextPickNumber, round |-> snake.round,
         teamIndex |-> snake.teamIndex,
         isHuman |-> (snake.teamIndex = settings.humanTeamIndex)]

\* isLastPick one pick early.
isLastPickEarly(pickNumber) == pickNumber >= TOTAL_PICKS - 1

isLastPick(pickNumber) == pickNumber >= TOTAL_PICKS

(* ----------------------- helpers over player lists --------------------- *)

SeqRange(s) == {s[i] : i \in 1..Len(s)}

\* players.filter((p) => p.playerId !== id)
WithoutPlayer(players, id) == SelectSeq(players, LAMBDA x : x # id)

SetMin(S) == CHOOSE x \in S : \A y \in S : PlayerRank(x) <= PlayerRank(y)

\* A fallback that looks at the best-ranked player only.
fallbackPickBestOnly(players, roster) ==
    IF Len(players) > 0 /\ canDraftPosition(roster, PlayerPosition(SetMin(SeqRange(players))))
    THEN SetMin(SeqRange(players))
    ELSE NoPlayer

\* [...players].sort(by rank).find((p) => canDraftPosition(roster, p.position)),
\* NoPlayer when there is none.
fallbackPick(players, roster) ==
    LET ok == {id \in SeqRange(players) : canDraftPosition(roster, PlayerPosition(id))}
    IN  IF ok = {} THEN NoPlayer ELSE SetMin(ok)

\* The roster with the picked player put into the slot assignRosterSlot names.
WithPick(roster, id) ==
    LET slot == assignRosterSlot(roster, PlayerPosition(id))
    IN  IF slot = "none" THEN roster
        ELSE IF slot = "SUPERFLEX" THEN [roster EXCEPT !.superflex = id]
        ELSE [roster EXCEPT ![slotKeyOf(slot)] = id]

MakePick(currentPick, id) ==
    [pickNumber |-> currentPick.pickNumber, round |-> currentPick.round,
     teamIndex |-> currentPick.teamIndex, playerId |-> id,
     position |-> PlayerPosition(id)]

\* The board after the pick: the pick appended, the cursor advanced or the
\* draft marked complete.
BoardAfterPick(board, pick) ==
    LET cur == board.currentPick
    IN  IF isLastPick(cur.pickNumber)
        THEN [board EXCEPT !.picks = Append(board.picks, pick),
                           !.draftComplete = TRUE]
        ELSE [board EXCEPT !.picks = Append(board.picks, pick),
                           !.currentPick = advanceCurrentPick(cur.pickNumber, board.settings)]

(* ---------------------------- board signals ---------------------------- *)

\* In the signal functions a player is a record [playerId, position, rank,
\* age, tier] and a pick a record [pickNumber, round, teamIndex, playerId,
\* position].

POSITION_RUN_WINDOW == 8

POSITION_RUN_MIN_COUNT == 3

VALUE_DROP_THRESHOLD == 8

SCARCITY_THRESHOLD == 5

STRONG_VALUE_PIVOT_EDGE == 8

BALANCED_MINOR_REACH_THRESHOLD == 10

BALANCED_MAJOR_REACH_THRESHOLD == 14

BALANCED_MINOR_DROP_THRESHOLD == 10

BALANCED_MAJOR_DROP_THRESHOLD == 14

BALANCED_MINOR_DROP_GAP == 5

BALANCED_MAJOR_DROP_GAP == 8

RISK_AVERSE_MINOR_REACH_THRESHOLD == 8

RISK_AVERSE_MAJOR_REACH_THRESHOLD == 12

VALUE_HUNTER_MINOR_NEGATIVE_VALUE == 0 - 4

VALUE_HUNTER_MAJOR_NEGATIVE_VALUE == 0 - 8

VALUE_HUNTER_MINOR_DROP_THRESHOLD == 8

VALUE_HUNTER_MAJOR_DROP_THRESHOLD == 10

VALUE_HUNTER_MINOR_DROP_GAP == 3

VALUE_HUNTER_MAJOR_DROP_GAP == 5

\* null where the code expects a player.
NullPlayer == [playerId |-> NoPlayer, position |-> "none", rank |-> 0, age |-> 0, tier |-> 0]

\* Array.prototype.sort with the comparator (a, b) => key(a) - key(b): a
\* stable sort, ascending in the keys (keys[i] is the key of s[i]).
StableSortBy(s, keys) ==
    LET n == Len(s)
        before(j, i) == keys[j] < keys[i] \/ (keys[j] = keys[i] /\ j < i)
        place == [i \in 1..n |-> Cardinality({j \in 1..n : before(j, i)}) + 1]
    IN  [k \in 1..n |-> s[CHOOSE i \in 1..n : place[i] = k]]

\* array.slice(-n)
LastN(s, n) == IF Len(s) <= n THEN s ELSE SubSeq(s, Len(s) - n + 1, Len(s))

\* array.slice(0, n)
FirstN(s, n) == IF Len(s) <= n THEN s ELSE SubSeq(s, 1, n)

\* The keys of a Map filled by walking s: the positions of s in the order of
\* their first occurrence.
PositionsInOrder(s) ==
    LET firsts == {i \in 1..Len(s) : \A j \in 1..(i - 1) : s[j].position # s[i].position}
        nth(k) == CHOOSE i \in firsts : Cardinality({j \in firsts : j < i}) = k - 1
    IN  [k \in 1..Cardinality(firsts) |-> s[nth(k)].position]

CountPosition(s, position) == Cardinality({i \in 1..Len(s) : s[i].position = position})

\* detectPositionRuns counting over the whole pick history.
detectPositionRunsWholeHistory(picks) ==
    IF Len(picks) = 0 THEN <<>>
    ELSE LET order == PositionsInOrder(picks)
             counts == [i \in 1..Len(order) |->
                          [position |-> order[i],
                           count |-> CountPosition(picks, order[i]),
                           window |-> Len(picks)]]
         IN  SelectSeq(counts, LAMBDA r : r.count >= POSITION_RUN_MIN_COUNT)

detectPositionRuns(picks) ==
    IF Len(picks) = 0 THEN <<>>
    ELSE LET window == LastN(picks, POSITION_RUN_WINDOW)
             order == PositionsInOrder(window)
             counts == [i \in 1..Len(order) |->
                          [position |-> order[i],
                           count |-> CountPosition(window, order[i]),
                           window |-> Len(window)]]
         IN  SelectSeq(counts, LAMBDA r : r.count >= POSITION_RUN_MIN_COUNT)

\* detectValueDrops without the final sort.
detectValueDropsUnsorted(availablePlayers, pickNumber) ==
    LET all == [i \in 1..Len(availablePlayers) |->
                  [player |-> availablePlayers[i],
                   adpDiff |-> pickNumber - availablePlayers[i].rank]]
    IN  SelectSeq(all, LAMBDA d : d.adpDiff >= VALUE_DROP_THRESHOLD)

detectValueDrops(availablePlayers, pickNumber) ==
    LET all == [i \in 1..Len(availablePlayers) |->
                  [player |-> availablePlayers[i],
                   adpDiff |-> pickNumber - availablePlayers[i].rank]]
        drops == SelectSeq(all, LAMBDA d : d.adpDiff >= VALUE_DROP_THRESHOLD)
    IN  StableSortBy(drops, [i \in 1..Len(drops) |-> 0 - drops[i].adpDiff])

detectScarcity(availablePlayers) ==
    LET order == PositionsInOrder(availablePlayers)
        counts == [i \in 1..Len(order) |->
                     [position |-> order[i],
                      remaining |-> CountPosition(availablePlayers, order[i])]]
        scarce == SelectSeq(counts, LAMBDA c : c.remaining <= SCARCITY_THRESHOLD)
    IN  StableSortBy(scarce, [i \in 1..Len(scarce) |-> scarce[i].remaining])

\* The summary text names the runs, the top three value drops and the
\* scarcity alerts, or says that there are none.
BoardSummary(positionRuns, valueDrops, scarcity) ==
    IF Len(positionRuns) = 0 /\ Len(valueDrops) = 0 /\ Len(scarcity) = 0
    THEN [text |-> "No significant trends detected"]
    ELSE [text |-> "Board Analysis", runs |-> positionRuns,
          drops |-> FirstN(valueDrops, 3), scarcity |-> scarcity]

analyzeBoardState(picks, availablePlayers, pickNumber) ==
    LET positionRuns == detectPositionRuns(picks)
        valueDrops == detectValueDrops(availablePlayers, pickNumber)
        scarcity == detectScarcity(availablePlayers)
    IN  [positionRuns |-> positionRuns, valueDrops |-> valueDrops,
         scarcity |-> scarcity,
         summary |-> BoardSummary(positionRuns, valueDrops, scarcity)]

(* -------------------------- persona shift rules ------------------------ *)

\* null: the pick is consistent with the persona.
NoShift == [category |-> "none", severity |-> "none"]

Shift(category, severity) == [category |-> category, severity |-> severity]

\* detectPersonaShift called without a shiftContext.
NoContext == [given |-> FALSE]

RegisteredPersonas ==
    {"drafter-balanced", "drafter-bold", "drafter-stack-builder", "drafter-zero-rb",
     "drafter-qb-first", "drafter-stud-rb", "drafter-te-premium", "drafter-contrarian",
     "drafter-youth-movement", "drafter-risk-averse", "drafter-value-hunter",
     "drafter-reactive"}

getPlayerValue(pickNumber, player) == pickNumber - player.rank

\* The first player of the greatest value, NullPlayer for an empty list.
getBestValueCandidate(pickNumber, players) ==
    IF Len(players) = 0 THEN NullPlayer
    ELSE LET v(i) == getPlayerValue(pickNumber, players[i])
         IN  players[CHOOSE i \in 1..Len(players) :
                        \A j \in 1..Len(players) : v(j) <= v(i) /\ (j < i => v(j) < v(i))]

NullDrop == [player |-> NullPlayer, adpDiff |-> 0]

\* The first value drop of an eligible position, NullDrop when there is none.
getTopEligibleValueDrop(boardAnalysis, eligiblePositions) ==
    LET ok == SelectSeq(boardAnalysis.valueDrops,
                        LAMBDA d : d.player.position \in eligiblePositions)
    IN  IF Len(ok) = 0 THEN NullDrop ELSE ok[1]

classifyCoreStrategyBreak(pick, hasValue, pickedValue, preferredCandidates, majorCategory) ==
    LET bestPreferred == getBestValueCandidate(pick.pickNumber, preferredCandidates)
    IN  IF bestPreferred = NullPlayer THEN NoShift
        ELSE IF hasValue /\ pickedValue - getPlayerValue(pick.pickNumber, bestPreferred)
                               >= STRONG_VALUE_PIVOT_EDGE
        THEN Shift("value-deviation", "minor")
        ELSE Shift(majorCategory, "major")

PositionsOf(players) == {players[i].position : i \in 1..Len(players)}

\* The position every listed player has, "none" (null) unless there is
\* exactly one.
OnlyPosition(positions) ==
    IF Cardinality(positions) = 1 THEN CHOOSE x \in positions : TRUE ELSE "none"

buildShiftEvaluationContext(roster, availablePlayers) ==
    LET eligiblePlayers == SelectSeq(availablePlayers,
                                     LAMBDA p : canDraftPosition(roster, p.position))
    IN  [given |-> TRUE,
         eligiblePlayers |-> eligiblePlayers,
         eligiblePositions |-> PositionsOf(eligiblePlayers),
         forcedPosition |-> OnlyPosition(PositionsOf(eligiblePlayers))]

Exists(s, Test(_)) == \E i \in 1..Len(s) : Test(s[i])

BalancedRule(pick, hasPicked, pickedValue, pickedReach, topDrop) ==
    IF hasPicked /\ pickedReach >= BALANCED_MAJOR_REACH_THRESHOLD
    THEN Shift("value-deviation", "major")
    ELSE IF hasPicked /\ pickedReach >= BALANCED_MINOR_REACH_THRESHOLD
    THEN Shift("value-deviation", "minor")
    ELSE IF topDrop # NullDrop /\ topDrop.player.playerId # pick.playerId /\ hasPicked
    THEN LET dropGap == topDrop.adpDiff - pickedValue
         IN  IF topDrop.adpDiff >= BALANCED_MAJOR_DROP_THRESHOLD
                /\ dropGap >= BALANCED_MAJOR_DROP_GAP
             THEN Shift("value-deviation", "major")
             ELSE IF topDrop.adpDiff >= BALANCED_MINOR_DROP_THRESHOLD
                     /\ dropGap >= BALANCED_MINOR_DROP_GAP
             THEN Shift("value-deviation", "minor")
             ELSE NoShift
    ELSE NoShift

BoldRule(pick, hasPicked, pickedPlayer, pickedValue, eligiblePlayers) ==
    IF hasPicked /\ pick.round <= 3 /\ pickedPlayer.age >= 29 /\ pickedValue < 8
    THEN IF ~Exists(eligiblePlayers, LAMBDA p : p.age < 29) THEN NoShift
         ELSE Shift("strategy-break",
                    IF pickedPlayer.age >= 31 /\ pickedValue < 4 THEN "major" ELSE "minor")
    ELSE NoShift

ContrarianRule(pick, eligibleRuns, eligiblePlayers) ==
    LET activeRuns == SelectSeq(eligibleRuns,
                                LAMBDA r : r.count >= 4
                                           \/ (r.window >= 6 /\ 2 * r.count >= r.window))
        joined == SelectSeq(activeRuns, LAMBDA r : r.position = pick.position)
    IN  IF Len(joined) = 0 THEN NoShift
        ELSE IF ~Exists(eligiblePlayers, LAMBDA p : p.position # pick.position) THEN NoShift
        ELSE Shift("trend-follow", IF joined[1].count >= 5 THEN "major" ELSE "minor")

YouthRule(hasPicked, pickedPlayer, eligiblePlayers) ==
    IF ~hasPicked THEN NoShift
    ELSE IF ~Exists(eligiblePlayers, LAMBDA p : p.age < 28) THEN NoShift
    ELSE IF pickedPlayer.age >= 30 THEN Shift("strategy-break", "major")
    ELSE IF pickedPlayer.age >= 28 THEN Shift("strategy-break", "minor")
    ELSE NoShift

RiskAverseRule(hasPicked, pickedReach) ==
    IF hasPicked /\ pickedReach > RISK_AVERSE_MAJOR_REACH_THRESHOLD
    THEN Shift("value-deviation", "major")
    ELSE IF hasPicked /\ pickedReach > RISK_AVERSE_MINOR_REACH_THRESHOLD
    THEN Shift("value-deviation", "minor")
    ELSE NoShift

ValueHunterRule(pick, hasPicked, pickedValue, topDrop) ==
    IF ~hasPicked THEN NoShift
    ELSE IF pickedValue < VALUE_HUNTER_MAJOR_NEGATIVE_VALUE
    THEN Shift("value-deviation", "major")
    ELSE IF pickedValue < VALUE_HUNTER_MINOR_NEGATIVE_VALUE
    THEN Shift("value-deviation", "minor")
    ELSE IF topDrop # NullDrop /\ topDrop.player.playerId # pick.playerId
    THEN LET dropGap == topDrop.adpDiff - pickedValue
         IN  IF topDrop.adpDiff >= VALUE_HUNTER_MAJOR_DROP_THRESHOLD
                /\ dropGap >= VALUE_HUNTER_MAJOR_DROP_GAP
             THEN Shift("value-deviation", "major")
             ELSE IF topDrop.adpDiff >= VALUE_HUNTER_MINOR_DROP_THRESHOLD
                     /\ dropGap >= VALUE_HUNTER_MINOR_DROP_GAP
             THEN Shift("value-deviation", "minor")
             ELSE NoShift
    ELSE NoShift

ReactiveRule(pick, hasPicked, pickedValue, topDrop, eligibleRuns, eligibleScarcity) ==
    LET sortedRuns == StableSortBy(eligibleRuns,
                                   [i \in 1..Len(eligibleRuns) |-> 0 - eligibleRuns[i].count])
        hasDominantRun == /\ Len(sortedRuns) >= 1
                          /\ sortedRuns[1].count >= 4
                          /\ (Len(sortedRuns) < 2
                              \/ sortedRuns[1].count - sortedRuns[2].count >= 1)
        hasMajorDrop == topDrop # NullDrop /\ topDrop.adpDiff >= 10
        hasMinorDrop == topDrop # NullDrop /\ topDrop.adpDiff >= 8
        urgentScarcity == SelectSeq(eligibleScarcity, LAMBDA s : s.remaining <= 3)
        dropGap == topDrop.adpDiff - pickedValue
        scarcityRule ==
            IF ~hasDominantRun /\ ~hasMinorDrop /\ Len(urgentScarcity) > 0
               /\ ~Exists(urgentScarcity, LAMBDA s : s.position = pick.position)
            THEN Shift("trend-fade", IF Len(urgentScarcity) > 1 THEN "major" ELSE "minor")
            ELSE NoShift
    IN  IF hasDominantRun /\ sortedRuns[1].position # pick.position
        THEN Shift("trend-fade", "major")
        ELSE IF ~hasDominantRun /\ (hasMajorDrop \/ hasMinorDrop)
                /\ topDrop.player.playerId # pick.playerId
        THEN IF ~hasPicked
             THEN Shift("value-deviation", IF hasMajorDrop THEN "major" ELSE "minor")
             ELSE IF hasMajorDrop /\ dropGap >= 6 THEN Shift("value-deviation", "major")
             ELSE IF dropGap >= 3 THEN Shift("value-deviation", "minor")
             ELSE scarcityRule
        ELSE scarcityRule

\* detectPersonaShift with unrecognized personas judged by the balanced rule.
detectPersonaShiftDefaultBalanced(persona, pick, boardAnalysis, availablePlayers, shiftContext) ==
    LET found == SelectSeq(availablePlayers, LAMBDA p : p.playerId = pick.playerId)
        hasPicked == Len(found) > 0
        pickedPlayer == IF hasPicked THEN found[1] ELSE NullPlayer
        eligiblePositions == IF shiftContext.given THEN shiftContext.eligiblePositions
                             ELSE PositionsOf(availablePlayers)
        forcedPosition == OnlyPosition(eligiblePositions)
    IN  IF forcedPosition # "none" /\ forcedPosition = pick.position THEN NoShift
        ELSE BalancedRule(pick, hasPicked, pick.pickNumber - pickedPlayer.rank,
                          pickedPlayer.rank - pick.pickNumber,
                          getTopEligibleValueDrop(boardAnalysis, eligiblePositions))

detectPersonaShift(persona, pick, boardAnalysis, availablePlayers, shiftContext) ==
    LET found == SelectSeq(availablePlayers, LAMBDA p : p.playerId = pick.playerId)
        hasPicked == Len(found) > 0
        pickedPlayer == IF hasPicked THEN found[1] ELSE NullPlayer
        pickedValue == pick.pickNumber - pickedPlayer.rank
        pickedReach == pickedPlayer.rank - pick.pickNumber
        eligiblePlayers == IF shiftContext.given THEN shiftContext.eligiblePlayers
                           ELSE availablePlayers
        eligiblePositions == IF shiftContext.given THEN shiftContext.eligiblePositions
                             ELSE PositionsOf(eligiblePlayers)
        forcedPosition == IF shiftContext.given /\ shiftContext.forcedPosition # "none"
                          THEN shiftContext.forcedPosition
                          ELSE OnlyPosition(eligiblePositions)
        eligibleRuns == SelectSeq(boardAnalysis.positionRuns,
                                  LAMBDA r : r.position \in eligiblePositions)
        eligibleScarcity == SelectSeq(boardAnalysis.scarcity,
                                      LAMBDA s : s.position \in eligiblePositions)
        topDrop == getTopEligibleValueDrop(boardAnalysis, eligiblePositions)
        position == pick.position
        round == pick.round
    IN  IF forcedPosition # "none" /\ forcedPosition = position THEN NoShift
        ELSE CASE persona = "drafter-balanced" ->
                    BalancedRule(pick, hasPicked, pickedValue, pickedReach, topDrop)
               [] persona = "drafter-bold" ->
                    BoldRule(pick, hasPicked, pickedPlayer, pickedValue, eligiblePlayers)
               [] persona = "drafter-stack-builder" ->
                    IF position # "QB" /\ round <= 2
                    THEN classifyCoreStrategyBreak(pick, hasPicked, pickedValue,
                            SelectSeq(eligiblePlayers,
                                      LAMBDA p : p.position = "QB" /\ p.rank <= 18),
                            "positional-pivot")
                    ELSE NoShift
               [] persona = "drafter-zero-rb" ->
                    IF position = "RB" /\ round <= 3
                    THEN classifyCoreStrategyBreak(pick, hasPicked, pickedValue,
                            SelectSeq(eligiblePlayers, LAMBDA p : p.position # "RB"),
                            "strategy-break")
                    ELSE NoShift
               [] persona = "drafter-qb-first" ->
                    IF position # "QB" /\ round <= 2
                    THEN classifyCoreStrategyBreak(pick, hasPicked, pickedValue,
                            SelectSeq(eligiblePlayers, LAMBDA p : p.position = "QB"),
                            "strategy-break")
                    ELSE NoShift
               [] persona = "drafter-stud-rb" ->
                    IF position # "RB" /\ round = 1
                    THEN classifyCoreStrategyBreak(pick, hasPicked, pickedValue,
                            SelectSeq(eligiblePlayers, LAMBDA p : p.position = "RB"),
                            "strategy-break")
                    ELSE NoShift
               [] persona = "drafter-te-premium" ->
                    IF position # "TE" /\ round <= 2
                    THEN classifyCoreStrategyBreak(pick, hasPicked, pickedValue,
                            SelectSeq(eligiblePlayers,
                                      LAMBDA p : p.position = "TE" /\ p.tier <= 2),
                            "strategy-break")
                    ELSE NoShift
               [] persona = "drafter-contrarian" ->
                    ContrarianRule(pick, eligibleRuns, eligiblePlayers)
               [] persona = "drafter-youth-movement" ->
                    YouthRule(hasPicked, pickedPlayer, eligiblePlayers)
               [] persona = "drafter-risk-averse" ->
                    RiskAverseRule(hasPicked, pickedReach)
               [] persona = "drafter-value-hunter" ->
                    ValueHunterRule(pick, hasPicked, pickedValue, topDrop)
               [] persona = "drafter-reactive" ->
                    ReactiveRule(pick, hasPicked, pickedValue, topDrop,
                                 eligibleRuns, eligibleScarcity)
               [] OTHER -> NoShift

(* -------------------------------- state -------------------------------- *)

VARIABLES
    kvBoard,     \* KV draft-state/board: [exists, data]
    kvPlayers,   \* KV draft-state/available-players: [exists, data]
    kvRosters,   \* KV team-rosters/team-i, per team: [exists, data]
    kvShifts,    \* KV agent-strategies/strategy-shifts: [exists, data]
    proc,        \* per request handler: its operation, position and locals
    outcome,     \* per request handler: the result of its last finished request
    draftNo,     \* number of drafts started so far (history)
    nReq,        \* requests issued so far in a concurrent run
    nDev,        \* non-default inputs so far in a one-at-a-time run
    probe,       \* arguments and results of a pure function applied on its own
    seeding      \* seedPromise (in memory) and the number of seedPlayers calls (history)

vars == <<kvBoard, kvPlayers, kvRosters, kvShifts, proc, outcome, draftNo, nReq, nDev, probe, seeding>>

store == <<kvBoard, kvPlayers, kvRosters, kvShifts, draftNo>>

NoBoard == [exists |-> FALSE, data |-> createInitialBoardState(0)]

NoPlayers == [exists |-> FALSE, data |-> <<>>]

NoShifts == [exists |-> FALSE, data |-> <<>>]

NoRoster(t) == [exists |-> FALSE, data |-> createEmptyRoster(t)]

Found(d) == [exists |-> TRUE, data |-> d]

\* No RecordPickResult yet.
NoResult ==
    [status |-> "none", boardState |-> NoBoard.data, roster |-> createEmptyRoster(0),
     availablePlayers |-> <<>>]

IdleProc ==
    [op |-> "idle", pc |-> "idle", input |-> 0,
     boardState |-> NoBoard.data, roster |-> createEmptyRoster(0),
     availablePlayers |-> <<>>, pickedPlayer |-> NoPlayer,
     latestBoard |-> NoBoard, latestPlayers |-> NoPlayers, readDraftNo |-> 0,
     strategyShift |-> NoShift, existingShifts |-> NoShifts, confidence |-> 0,
     reads |-> {}, writes |-> {}, result |-> NoResult,
     startedHere |-> FALSE, seedsDone |-> 0,
     events |-> <<>>, rosterFull |-> FALSE]

NoOutcome == [op |-> "none", status |-> "none", draftNo |-> 0, pickNumber |-> 0,
              playerId |-> NoPlayer, confidence |-> 0, events |-> <<>>]

NoProbe == [fn |-> "none"]

\* seedPromise = null, no seedPlayers call made yet.
NoSeeding == [promise |-> "none", started |-> 0]

\* humanTeamIndex values a start request may carry: two valid, two out of range.
StartInputs == {-1, 0, 3, NUM_TEAMS}

\* The ids an advisor or a human may name besides the best eligible player:
\* an id outside the catalog and the second-best QB.
NamedIds == {NoPlayer, 5}

\* -1: the advisor fails (advance) or the human names the best eligible player;
\* otherwise the player id named.
Choices == {-1} \cup NamedIds

\* Confidence scores, in tenths: of the fallback pick after a failed advisor
\* call, of a human pick, and the one an answering advisor reports.
FALLBACK_CONFIDENCE == 3

HUMAN_CONFIDENCE == 10

AdvisorConfidence == 7

\* The state after construction: an empty store, every handler idle.
StoreInit ==
    /\ kvBoard = NoBoard
    /\ kvPlayers = NoPlayers
    /\ kvRosters = [t \in Teams |-> NoRoster(t)]
    /\ kvShifts = NoShifts
    /\ proc = [p \in Procs |-> IdleProc]
    /\ outcome = [p \in Procs |-> NoOutcome]
    /\ draftNo = 0
    /\ nReq = 0
    /\ nDev = 0
    /\ seeding = NoSeeding

Init == StoreInit /\ probe = NoProbe

(* ---------------------------- request intake --------------------------- *)

\* The stream's last events with the 'pick' event sent whatever recordPick
\* returned.
lastEventsUnchecked(me, status) ==
    (IF me.strategyShift # NoShift THEN <<"strategy-shift">> ELSE <<>>)
        \o <<"pick", "done">>

\* GET /draft/advance/stream, the events that end the stream: 'error' on
\* every early return and when recordPick fails; after a successful
\* recordPick 'strategy-shift' (if one was detected), 'pick' and 'done'. In
\* the branch taken for a roster without open slots 'pick' and 'done' are
\* sent without a look at the result.
lastEvents(me, status) ==
    IF me.rosterFull /\ me.pickedPlayer # NoPlayer THEN <<"pick", "done">>
    ELSE IF status = "success"
    THEN (IF me.strategyShift # NoShift THEN <<"strategy-shift">> ELSE <<>>)
            \o <<"pick", "done">>
    ELSE <<"error">>

\* A request handler returns: its result is recorded and it becomes idle.
Finish(p, status, pickNumber, playerId) ==
    /\ outcome' = [outcome EXCEPT ![p] =
                     [op |-> proc[p].op, status |-> status,
                      draftNo |-> proc[p].readDraftNo,
                      pickNumber |-> pickNumber, playerId |-> playerId,
                      confidence |-> IF status = "success" THEN proc[p].confidence
                                     ELSE 0,
                      events |-> IF proc[p].op = "stream"
                                 THEN proc[p].events \o lastEvents(proc[p], status)
                                 ELSE <<>>]]
    /\ proc' = [proc EXCEPT ![p] = IdleProc]

\* The budget a new request draws on. In a one-at-a-time run (seq) the
\* default requests (the first start, an advance or pick on the right turn
\* choosing the best eligible player) are free and every other input counts
\* as a deviation; in a concurrent run every request counts.
Budget(seq, isDefault) ==
    IF seq
    THEN /\ isDefault \/ nDev < MaxDeviations
         /\ nDev' = IF isDefault THEN nDev ELSE nDev + 1
         /\ nReq' = nReq
    ELSE /\ nReq < MaxRequests
         /\ nReq' = nReq + 1
         /\ nDev' = nDev

OnClock == kvBoard.exists /\ ~kvBoard.data.draftComplete

\* A start that seeds before it looks at humanTeamIndex.
BeginStartSeedsFirst(p, h, seq) ==
    /\ proc[p].pc = "idle"
    /\ Budget(seq, ~kvBoard.exists /\ h \in Teams)
    /\ proc' = [proc EXCEPT ![p] = [IdleProc EXCEPT !.op = "start",
                                       !.pc = "st_seed", !.input = h]]
    /\ outcome' = outcome
    /\ UNCHANGED <<store, probe, seeding>>

\* POST /draft/start: an out-of-range humanTeamIndex is answered 400 at once.
BeginStart(p, h, seq) ==
    /\ proc[p].pc = "idle"
    /\ Budget(seq, ~kvBoard.exists /\ h \in Teams)
    /\ IF h < 0 \/ h >= NUM_TEAMS
       THEN /\ outcome' = [outcome EXCEPT ![p] = [NoOutcome EXCEPT !.op = "start",
                                                     !.status = "invalid"]]
            /\ proc' = proc
       ELSE /\ proc' = [proc EXCEPT ![p] = [IdleProc EXCEPT !.op = "start",
                                               !.pc = "st_seed", !.input = h]]
            /\ outcome' = outcome
    /\ UNCHANGED <<store, probe, seeding>>

\* POST /draft/advance. The advisor's answer (input c) is fixed here; it is
\* used once the handler has read the players.
BeginAdvance(p, c, seq) ==
    /\ proc[p].pc = "idle"
    /\ Budget(seq, c = -1 /\ OnClock /\ ~kvBoard.data.currentPick.isHuman)
    /\ proc' = [proc EXCEPT ![p] = [IdleProc EXCEPT !.op = "advance",
                                       !.pc = "adv_board", !.input = c]]
    /\ UNCHANGED <<store, outcome, probe, seeding>>

\* POST /draft/pick with a player id: the named id, or the best player the
\* stored roster of the team on the clock can accept.
BeginPick(p, c, seq) ==
    /\ proc[p].pc = "idle"
    /\ Budget(seq, c = -1 /\ OnClock /\ kvBoard.data.currentPick.isHuman)
    /\ LET t == kvBoard.data.currentPick.teamIndex
           id == IF c = -1 THEN fallbackPick(kvPlayers.data, kvRosters[t].data) ELSE c
       IN  proc' = [proc EXCEPT ![p] = [IdleProc EXCEPT !.op = "pick",
                                           !.pc = "pk_board", !.input = id]]
    /\ UNCHANGED <<store, outcome, probe, seeding>>

(* ----------------------------- ensureSeeded ---------------------------- *)

\* POST /draft/seed.
BeginSeed(p, seq) ==
    /\ proc[p].pc = "idle"
    /\ Budget(seq, FALSE)
    /\ proc' = [proc EXCEPT ![p] = [IdleProc EXCEPT !.op = "seed", !.pc = "st_seed"]]
    /\ UNCHANGED <<store, outcome, probe, seeding>>

\* The handler goes on after ensureSeeded: /draft/start runs the
\* commissioner's 'start', /draft/seed returns.
AfterSeeded(me) ==
    IF me.op = "start"
    THEN [me EXCEPT !.pc = "st_write", !.writes = {"rosters", "board"}]
    ELSE IdleProc

\* /draft/seed answers with the status ensureSeeded returned.
SeedAnswer(me, old, status) ==
    IF me.op = "start" THEN old
    ELSE [NoOutcome EXCEPT !.op = "seed", !.status = status]

\* The seedPlayers calls that have settled (history).
SeedsSettled == seeding.started - (IF seeding.promise = "inflight" THEN 1 ELSE 0)

\* ensureSeeded: read the player list; a non-empty list is used as it is
\* ('cached'), otherwise the handler goes on to look at seedPromise.
StartSeed(p) ==
    /\ proc[p].pc = "st_seed"
    /\ IF kvPlayers.exists /\ Len(kvPlayers.data) > 0
       THEN /\ proc' = [proc EXCEPT ![p] = AfterSeeded(proc[p])]
            /\ outcome' = [outcome EXCEPT ![p] = SeedAnswer(proc[p], @, "cached")]
       ELSE /\ proc' = [proc EXCEPT ![p].pc = "es_check",
                                    ![p].seedsDone = SeedsSettled]
            /\ outcome' = outcome
    /\ UNCHANGED <<store, nReq, nDev, probe, seeding>>

\* ensureSeeded after the read found no players: with no seed in flight the
\* handler calls seedPlayers and keeps its promise in seedPromise, otherwise
\* it joins the seed in flight; either way it awaits the promise.
EsCheck(p) ==
    /\ proc[p].pc = "es_check"
    /\ LET startedHere == (seeding.promise = "none")
       IN  /\ seeding' = IF startedHere
                         THEN [promise |-> "inflight", started |-> seeding.started + 1]
                         ELSE seeding
           /\ proc' = [proc EXCEPT ![p].pc = "es_wait", ![p].startedHere = startedHere]
    /\ UNCHANGED <<store, outcome, nReq, nDev, probe>>

Awaiting(q) == proc[q].pc = "es_wait"

\* seedPlayers: the fetched catalog is stored as the available-player list;
\* the promise resolves, seedPromise is cleared and every handler awaiting it
\* goes on.
SeedPlayersDone ==
    /\ seeding.promise = "inflight"
    /\ kvPlayers' = Found(SeededPlayers)
    /\ seeding' = [seeding EXCEPT !.promise = "none"]
    /\ proc' = [q \in Procs |-> IF Awaiting(q) THEN AfterSeeded(proc[q]) ELSE proc[q]]
    /\ outcome' = [q \in Procs |->
                     IF Awaiting(q)
                     THEN SeedAnswer(proc[q], outcome[q],
                                     IF proc[q].startedHere THEN "seeded"
                                     ELSE "joined_inflight")
                     ELSE outcome[q]]
    /\ UNCHANGED <<kvBoard, kvRosters, kvShifts, draftNo, nReq, nDev, probe>>

\* A failing seedPlayers whose rejection reaches only the call that started it.
SeedPlayersFailStarterOnly ==
    /\ seeding.promise = "inflight"
    /\ seeding.started <= MaxSeedFailures
    /\ seeding' = [seeding EXCEPT !.promise = "none"]
    /\ proc' = [q \in Procs |-> IF Awaiting(q) /\ proc[q].startedHere
                                THEN IdleProc ELSE proc[q]]
    /\ outcome' = [q \in Procs |->
                     IF Awaiting(q) /\ proc[q].startedHere
                     THEN [NoOutcome EXCEPT !.op = proc[q].op, !.status = "seedfailed"]
                     ELSE outcome[q]]
    /\ UNCHANGED <<store, nReq, nDev, probe>>

\* seedPlayers throws (the fetch fails or returns no players): the promise
\* rejects, seedPromise is cleared and every handler awaiting it fails.
SeedPlayersFail ==
    /\ seeding.promise = "inflight"
    /\ seeding.started <= MaxSeedFailures
    /\ seeding' = [seeding EXCEPT !.promise = "none"]
    /\ proc' = [q \in Procs |-> IF Awaiting(q) THEN IdleProc ELSE proc[q]]
    /\ outcome' = [q \in Procs |->
                     IF Awaiting(q)
                     THEN [NoOutcome EXCEPT !.op = proc[q].op, !.status = "seedfailed"]
                     ELSE outcome[q]]
    /\ UNCHANGED <<store, nReq, nDev, probe>>

(* ---------------------------- start: the writes ------------------------ *)

\* Commissioner 'start': the empty rosters and the initial board are set in
\* parallel (the eight roster sets are applied together; the persona
\* assignments and the settings copy are keys no handler here reads).
StartWrite(p, k) ==
    /\ proc[p].pc = "st_write"
    /\ k \in proc[p].writes
    /\ IF k = "rosters"
       THEN /\ kvRosters' = [t \in Teams |-> Found(createEmptyRoster(t))]
            /\ UNCHANGED <<kvBoard, draftNo>>
       ELSE /\ kvBoard' = Found(createInitialBoardState(proc[p].input))
            /\ draftNo' = draftNo + 1
            /\ UNCHANGED kvRosters
    /\ IF proc[p].writes = {k}
       THEN /\ outcome' = [outcome EXCEPT ![p] = [NoOutcome EXCEPT !.op = "start",
                                                      !.status = "started"]]
            /\ proc' = [proc EXCEPT ![p] = IdleProc]
       ELSE /\ proc' = [proc EXCEPT ![p].writes = @ \ {k}]
            /\ outcome' = outcome
    /\ UNCHANGED <<kvPlayers, kvShifts, nReq, nDev, probe, seeding>>

(* ------------------------- advance: the AI's turn ---------------------- *)

\* Commissioner 'advance': read the board; no draft, a complete draft and the
\* human's turn are rejected.
AdvBoard(p) ==
    /\ proc[p].pc = "adv_board"
    /\ IF ~kvBoard.exists THEN Finish(p, "nodraft", 0, NoPlayer)
       ELSE IF kvBoard.data.draftComplete THEN Finish(p, "complete", 0, NoPlayer)
       ELSE IF kvBoard.data.currentPick.isHuman THEN Finish(p, "wrongturn", 0, NoPlayer)
       ELSE /\ proc' = [proc EXCEPT ![p].pc = "adv_roster", ![p].boardState = kvBoard.data]
            /\ outcome' = outcome
    /\ UNCHANGED <<store, nReq, nDev, probe, seeding>>

\* Read the roster of the team on the clock (an empty one if none is stored).
AdvRoster(p) ==
    /\ proc[p].pc = "adv_roster"
    /\ LET t == proc[p].boardState.currentPick.teamIndex
       IN  proc' = [proc EXCEPT ![p].pc = "adv_players",
                                ![p].roster = IF kvRosters[t].exists THEN kvRosters[t].data
                                              ELSE createEmptyRoster(t)]
    /\ UNCHANGED <<store, outcome, nReq, nDev, probe, seeding>>

\* The passage from the caller into recordPick: its first roster check, then
\* the two reads of the latest state are issued.
EnterRecordPick(p, id, avail, confidence) ==
    IF ~canDraftPosition(proc[p].roster, PlayerPosition(id))
    THEN proc' = [proc EXCEPT ![p].pc = "rp_fail", ![p].pickedPlayer = id,
                              ![p].availablePlayers = avail,
                              ![p].confidence = confidence,
                              ![p].result = [status |-> "noslot",
                                             boardState |-> proc[p].boardState,
                                             roster |-> proc[p].roster,
                                             availablePlayers |-> avail]]
    ELSE proc' = [proc EXCEPT ![p].pc = "rp_read", ![p].pickedPlayer = id,
                              ![p].availablePlayers = avail,
                              ![p].confidence = confidence,
                              ![p].reads = {"board", "players"}]

\* An advance that gives up when the advisor call fails.
AdvPlayersNoFallback(p) ==
    /\ proc[p].pc = "adv_players"
    /\ LET me == proc[p]
           n == me.boardState.currentPick.pickNumber
           avail == kvPlayers.data
       IN  IF ~kvPlayers.exists \/ Len(avail) = 0 THEN Finish(p, "noplayers", n, NoPlayer)
           ELSE IF me.input = -1 THEN Finish(p, "advisorfailed", n, NoPlayer)
           ELSE IF me.input \notin SeqRange(avail) THEN Finish(p, "unavailable", n, me.input)
           ELSE IF ~canDraftPosition(me.roster, PlayerPosition(me.input))
                THEN Finish(p, "noslot", n, me.input)
           ELSE EnterRecordPick(p, me.input, avail, AdvisorConfidence) /\ outcome' = outcome
    /\ UNCHANGED <<store, nReq, nDev, probe, seeding>>

\* Read the available players, take the advisor's answer (the fallback pick
\* when the advisor failed), validate it against what was read and call
\* recordPick.
AdvPlayers(p) ==
    /\ proc[p].pc = "adv_players"
    /\ LET me == proc[p]
           n == me.boardState.currentPick.pickNumber
           avail == kvPlayers.data
           fb == fallbackPick(avail, me.roster)
           id == IF me.input = -1 THEN fb ELSE me.input
           confidence == IF me.input = -1 THEN FALLBACK_CONFIDENCE ELSE AdvisorConfidence
       IN  IF ~kvPlayers.exists \/ Len(avail) = 0 THEN Finish(p, "noplayers", n, NoPlayer)
           ELSE IF me.input = -1 /\ fb = NoPlayer THEN Finish(p, "exhausted", n, NoPlayer)
           ELSE IF id \notin SeqRange(avail) THEN Finish(p, "unavailable", n, id)
           ELSE IF ~canDraftPosition(me.roster, PlayerPosition(id))
                THEN Finish(p, "noslot", n, id)
           ELSE EnterRecordPick(p, id, avail, confidence) /\ outcome' = outcome
    /\ UNCHANGED <<store, nReq, nDev, probe, seeding>>

(* ------------------------------ recordPick ----------------------------- *)

\* RecordPickVerdict without the comparison of the cursors.
RecordPickVerdictNoConflict(me, latestBoard, latestPlayers) ==
    IF ~latestBoard.exists THEN "nodraft"
    ELSE IF latestBoard.data.draftComplete THEN "complete"
    ELSE IF ~latestPlayers.exists THEN "noplayers"
    ELSE IF me.pickedPlayer \notin SeqRange(latestPlayers.data) THEN "unavailable"
    ELSE IF ~canDraftPosition(me.roster, PlayerPosition(me.pickedPlayer)) THEN "noslot"
    ELSE "commit"

\* RecordPickVerdict looking the player up in the caller's list.
RecordPickVerdictStaleList(me, latestBoard, latestPlayers) ==
    LET expectedPick == me.boardState.currentPick
        latestCurrentPick == latestBoard.data.currentPick
        pickMismatch == \/ latestCurrentPick.pickNumber # expectedPick.pickNumber
                        \/ latestCurrentPick.teamIndex # expectedPick.teamIndex
    IN  IF ~latestBoard.exists THEN "nodraft"
        ELSE IF latestBoard.data.draftComplete THEN "complete"
        ELSE IF pickMismatch THEN "conflict"
        ELSE IF ~latestPlayers.exists THEN "noplayers"
        ELSE IF me.pickedPlayer \notin SeqRange(me.availablePlayers) THEN "unavailable"
        ELSE IF ~canDraftPosition(me.roster, PlayerPosition(me.pickedPlayer)) THEN "noslot"
        ELSE "commit"

\* What recordPick decides once both reads of the latest state are in:
\* a rejection, or "commit".
RecordPickVerdict(me, latestBoard, latestPlayers) ==
    LET expectedPick == me.boardState.currentPick
        latestCurrentPick == latestBoard.data.currentPick
        pickMismatch == \/ latestCurrentPick.pickNumber # expectedPick.pickNumber
                        \/ latestCurrentPick.teamIndex # expectedPick.teamIndex
    IN  IF ~latestBoard.exists THEN "nodraft"
        ELSE IF latestBoard.data.draftComplete THEN "complete"
        ELSE IF pickMismatch THEN "conflict"
        ELSE IF ~latestPlayers.exists THEN "noplayers"
        ELSE IF me.pickedPlayer \notin SeqRange(latestPlayers.data) THEN "unavailable"
        ELSE IF ~canDraftPosition(me.roster, PlayerPosition(me.pickedPlayer)) THEN "noslot"
        ELSE "commit"

\* The shift detection of recordPick: detectPersonaShift is called with the
\* latest player list and without a shift context (the roster is not used).
shiftDetection(persona, pick, boardAnalysis, latestAvailablePlayers, roster) ==
    detectPersonaShift(persona, pick, boardAnalysis, latestAvailablePlayers, NoContext)

\* The StrategyShift recordPick builds for the pick it is about to commit
\* (NoShift: no shift detected), from the board analysis its caller made of
\* the caller's own copies.
detectedShift(me, latestPlayers) ==
    LET currentPick == me.boardState.currentPick
        pick == MakePick(currentPick, me.pickedPlayer)
        persona == personaName(currentPick.teamIndex)
        boardAnalysis == analyzeBoardState(me.boardState.picks,
                                           PlayerRecords(me.availablePlayers),
                                           currentPick.pickNumber)
        found == shiftDetection(persona, pick, boardAnalysis,
                                PlayerRecords(latestPlayers.data), me.roster)
    IN  IF found = NoShift THEN NoShift
        ELSE [pickNumber |-> currentPick.pickNumber, teamIndex |-> currentPick.teamIndex,
              persona |-> persona, playerPicked |-> me.pickedPlayer,
              position |-> pick.position, category |-> found.category,
              severity |-> found.severity]

\* The failure result recordPick returns for a rejection: which board state,
\* roster and player list it carries.
RecordPickFailure(me, latestBoard, latestPlayers, verdict) ==
    [status |-> verdict,
     boardState |-> IF verdict = "nodraft" THEN me.boardState ELSE latestBoard.data,
     roster |-> me.roster,
     availablePlayers |->
        IF verdict = "nodraft" \/ verdict = "noplayers" THEN me.availablePlayers
        ELSE IF verdict \in {"complete", "conflict"}
        THEN (IF latestPlayers.exists THEN latestPlayers.data ELSE me.availablePlayers)
        ELSE latestPlayers.data]

\* One of the two parallel reads (board, players) of the latest state
\* completes; after the second the checks run and, if they pass, the shift
\* detection: a detected shift is persisted first, otherwise the three writes
\* of the commit are issued.
RpRead(p, k) ==
    /\ proc[p].pc = "rp_read"
    /\ k \in proc[p].reads
    /\ LET me == proc[p]
           lb == IF k = "board" THEN kvBoard ELSE me.latestBoard
           lp == IF k = "players" THEN kvPlayers ELSE me.latestPlayers
           dn == IF k = "board" THEN draftNo ELSE me.readDraftNo
           verdict == RecordPickVerdict(me, lb, lp)
       IN  IF me.reads # {k}
           THEN /\ proc' = [proc EXCEPT ![p].reads = @ \ {k}, ![p].latestBoard = lb,
                                        ![p].latestPlayers = lp, ![p].readDraftNo = dn]
                /\ outcome' = outcome
           ELSE IF verdict # "commit"
           THEN /\ proc' = [proc EXCEPT ![p].pc = "rp_fail", ![p].reads = {},
                                        ![p].latestBoard = lb, ![p].latestPlayers = lp,
                                        ![p].readDraftNo = dn,
                                        ![p].result = RecordPickFailure(me, lb, lp, verdict)]
                /\ outcome' = outcome
           ELSE IF detectedShift(me, lp) # NoShift
           THEN /\ proc' = [proc EXCEPT ![p].pc = "rp_shift_read", ![p].reads = {},
                                        ![p].latestBoard = lb, ![p].latestPlayers = lp,
                                        ![p].readDraftNo = dn,
                                        ![p].strategyShift = detectedShift(me, lp)]
                /\ outcome' = outcome
           ELSE /\ proc' = [proc EXCEPT ![p].pc = "rp_write", ![p].reads = {},
                                        ![p].latestBoard = lb, ![p].latestPlayers = lp,
                                        ![p].readDraftNo = dn,
                                        ![p].writes = {"roster", "players", "board"}]
                /\ outcome' = outcome
    /\ UNCHANGED <<store, nReq, nDev, probe, seeding>>

\* A shift was detected: the existing shifts are read (with the team's
\* scouting notes, a key no handler here reads).
RpShiftRead(p) ==
    /\ proc[p].pc = "rp_shift_read"
    /\ proc' = [proc EXCEPT ![p].pc = "rp_shift_write", ![p].existingShifts = kvShifts]
    /\ UNCHANGED <<store, outcome, nReq, nDev, probe, seeding>>

\* allShifts: the shifts read, with the new one appended.
allShifts(me) ==
    IF me.existingShifts.exists THEN Append(me.existingShifts.data, me.strategyShift)
    ELSE <<me.strategyShift>>

\* The cumulative list is written back (with the per-pick key and the
\* scouting note, keys no handler here reads); the three writes of the commit
\* are issued next.
RpShiftWrite(p) ==
    /\ proc[p].pc = "rp_shift_write"
    /\ kvShifts' = Found(allShifts(proc[p]))
    /\ proc' = [proc EXCEPT ![p].pc = "rp_write",
                            ![p].writes = {"roster", "players", "board"}]
    /\ UNCHANGED <<kvBoard, kvPlayers, kvRosters, draftNo, outcome, nReq, nDev, probe,
                   seeding>>

\* recordPick has returned a failure result: the handler passes its message
\* and board state on to the client.
RpFail(p) ==
    /\ proc[p].pc = "rp_fail"
    /\ Finish(p, proc[p].result.status, proc[p].boardState.currentPick.pickNumber,
              proc[p].pickedPlayer)
    /\ UNCHANGED <<store, nReq, nDev, probe, seeding>>

\* The values recordPick writes: the caller's roster with the pick, the
\* latest player list without it, the latest board with the pick appended.
updatedRoster(me) == WithPick(me.roster, me.pickedPlayer)

updatedAvailable(me) == WithoutPlayer(me.latestPlayers.data, me.pickedPlayer)

updatedBoardState(me) ==
    BoardAfterPick(me.latestBoard.data,
                   MakePick(me.latestBoard.data.currentPick, me.pickedPlayer))

\* One of the three parallel kv.set calls of a commit reaches the store.
ApplyWrite(k, t, roster, players, board) ==
    /\ kvRosters' = IF k = "roster" THEN [kvRosters EXCEPT ![t] = Found(roster)]
                    ELSE kvRosters
    /\ kvPlayers' = IF k = "players" THEN Found(players) ELSE kvPlayers
    /\ kvBoard' = IF k = "board" THEN Found(board) ELSE kvBoard
    /\ UNCHANGED <<kvShifts, draftNo>>

\* recordPick's writes; after the last one it returns success.
RpWrite(p, k) ==
    /\ proc[p].pc = "rp_write"
    /\ k \in proc[p].writes
    /\ LET me == proc[p]
           cur == me.latestBoard.data.currentPick
       IN  /\ ApplyWrite(k, cur.teamIndex, updatedRoster(me), updatedAvailable(me),
                         updatedBoardState(me))
           /\ IF me.writes = {k}
              THEN Finish(p, "success", cur.pickNumber, me.pickedPlayer)
              ELSE /\ proc' = [proc EXCEPT ![p].writes = @ \ {k}]
                   /\ outcome' = outcome
    /\ UNCHANGED <<nReq, nDev, probe, seeding>>

(* --------------------- GET /draft/advance/stream ----------------------- *)

\* The open slots of a roster.
getAvailableSlots(roster) ==
    {s \in {"qb", "rb", "wr", "te", "superflex"} : roster[s] = NoPlayer}

\* The request arrives; the model's answer (input c: -1 no structured output,
\* otherwise the player id it names) is fixed here and used after the reads.
BeginStream(p, c, seq) ==
    /\ proc[p].pc = "idle"
    /\ Budget(seq, c = -1 /\ OnClock /\ ~kvBoard.data.currentPick.isHuman)
    /\ proc' = [proc EXCEPT ![p] = [IdleProc EXCEPT !.op = "stream",
                                       !.pc = "str_board", !.input = c]]
    /\ UNCHANGED <<store, outcome, probe, seeding>>

\* Read the board; no draft, a complete draft and the human's turn end the
\* stream with 'error'.
StrBoard(p) ==
    /\ proc[p].pc = "str_board"
    /\ IF ~kvBoard.exists THEN Finish(p, "nodraft", 0, NoPlayer)
       ELSE IF kvBoard.data.draftComplete THEN Finish(p, "complete", 0, NoPlayer)
       ELSE IF kvBoard.data.currentPick.isHuman THEN Finish(p, "wrongturn", 0, NoPlayer)
       ELSE /\ proc' = [proc EXCEPT ![p].pc = "str_roster", ![p].boardState = kvBoard.data]
            /\ outcome' = outcome
    /\ UNCHANGED <<store, nReq, nDev, probe, seeding>>

\* Read the roster of the team on the clock (an empty one if none is stored).
StrRoster(p) ==
    /\ proc[p].pc = "str_roster"
    /\ LET t == proc[p].boardState.currentPick.teamIndex
       IN  proc' = [proc EXCEPT ![p].pc = "str_players",
                                ![p].roster = IF kvRosters[t].exists THEN kvRosters[t].data
                                              ELSE createEmptyRoster(t)]
    /\ UNCHANGED <<store, outcome, nReq, nDev, probe, seeding>>

\* Read the available players: none ends the stream with 'error', otherwise
\* the 'metadata' event is sent and the roster's open slots are looked at.
StrPlayers(p) ==
    /\ proc[p].pc = "str_players"
    /\ LET me == proc[p]
           n == me.boardState.currentPick.pickNumber
       IN  IF ~kvPlayers.exists \/ Len(kvPlayers.data) = 0
           THEN Finish(p, "noplayers", n, NoPlayer)
           ELSE /\ proc' = [proc EXCEPT ![p].pc = "str_pick",
                                        ![p].availablePlayers = kvPlayers.data,
                                        ![p].events = <<"metadata">>,
                                        ![p].rosterFull = (getAvailableSlots(me.roster) = {})]
                /\ outcome' = outcome
    /\ UNCHANGED <<store, nReq, nDev, probe, seeding>>

\* The pick is chosen and recordPick called: for a roster without open slots
\* the fallback pick; otherwise the player the model names if that player is
\* in the list read and fits the roster, else the fallback pick. No fallback
\* pick ends the stream with 'error'.
StrPick(p) ==
    /\ proc[p].pc = "str_pick"
    /\ LET me == proc[p]
           n == me.boardState.currentPick.pickNumber
           avail == me.availablePlayers
           fb == fallbackPick(avail, me.roster)
           valid == /\ me.input \in SeqRange(avail)
                    /\ canDraftPosition(me.roster, PlayerPosition(me.input))
       IN  IF me.rosterFull
           THEN IF fb = NoPlayer THEN Finish(p, "exhausted", n, NoPlayer)
                ELSE EnterRecordPick(p, fb, avail, FALLBACK_CONFIDENCE) /\ outcome' = outcome
           ELSE IF valid
           THEN EnterRecordPick(p, me.input, avail, AdvisorConfidence) /\ outcome' = outcome
           ELSE IF fb = NoPlayer THEN Finish(p, "exhausted", n, NoPlayer)
           ELSE EnterRecordPick(p, fb, avail, FALLBACK_CONFIDENCE) /\ outcome' = outcome
    /\ UNCHANGED <<store, nReq, nDev, probe, seeding>>

\* The steps of a streaming advance: its own and those of recordPick.
StreamStep(p) ==
    \/ StrBoard(p)
    \/ StrRoster(p)
    \/ StrPlayers(p)
    \/ StrPick(p)
    \/ \E k \in {"board", "players"} : RpRead(p, k)
    \/ RpFail(p)
    \/ RpShiftRead(p)
    \/ RpShiftWrite(p)
    \/ \E k \in {"roster", "players", "board"} : RpWrite(p, k)

(* ------------------------- pick: the human's turn ---------------------- *)

\* Commissioner 'pick': read the board; no draft, a complete draft and an
\* AI's turn are rejected.
PkBoard(p) ==
    /\ proc[p].pc = "pk_board"
    /\ IF ~kvBoard.exists THEN Finish(p, "nodraft", 0, NoPlayer)
       ELSE IF kvBoard.data.draftComplete THEN Finish(p, "complete", 0, NoPlayer)
       ELSE IF ~kvBoard.data.currentPick.isHuman THEN Finish(p, "wrongturn", 0, NoPlayer)
       ELSE /\ proc' = [proc EXCEPT ![p].pc = "pk_players", ![p].boardState = kvBoard.data,
                                    ![p].latestBoard = kvBoard, ![p].readDraftNo = draftNo]
            /\ outcome' = outcome
    /\ UNCHANGED <<store, nReq, nDev, probe, seeding>>

\* Read the available players and look the named player up.
PkPlayers(p) ==
    /\ proc[p].pc = "pk_players"
    /\ LET me == proc[p]
           n == me.boardState.currentPick.pickNumber
       IN  IF ~kvPlayers.exists \/ Len(kvPlayers.data) = 0
           THEN Finish(p, "noplayers", n, NoPlayer)
           ELSE IF me.input \notin SeqRange(kvPlayers.data)
           THEN Finish(p, "unavailable", n, me.input)
           ELSE /\ proc' = [proc EXCEPT ![p].pc = "pk_roster", ![p].pickedPlayer = me.input,
                                        ![p].availablePlayers = kvPlayers.data,
                                        ![p].latestPlayers = kvPlayers]
                /\ outcome' = outcome
    /\ UNCHANGED <<store, nReq, nDev, probe, seeding>>

\* Read the roster, check the slot, and issue the three writes.
PkRoster(p) ==
    /\ proc[p].pc = "pk_roster"
    /\ LET me == proc[p]
           t == me.boardState.currentPick.teamIndex
           roster == IF kvRosters[t].exists THEN kvRosters[t].data ELSE createEmptyRoster(t)
       IN  IF ~canDraftPosition(roster, PlayerPosition(me.pickedPlayer))
           THEN Finish(p, "noslot", me.boardState.currentPick.pickNumber, me.pickedPlayer)
           ELSE /\ proc' = [proc EXCEPT ![p].pc = "pk_write", ![p].roster = roster,
                                        ![p].confidence = HUMAN_CONFIDENCE,
                                        ![p].writes = {"roster", "players", "board"}]
                /\ outcome' = outcome
    /\ UNCHANGED <<store, nReq, nDev, probe, seeding>>

\* The human pick's writes; after the last one the handler returns success.
PkWrite(p, k) ==
    /\ proc[p].pc = "pk_write"
    /\ k \in proc[p].writes
    /\ LET me == proc[p]
           cur == me.boardState.currentPick
       IN  /\ ApplyWrite(k, cur.teamIndex, WithPick(me.roster, me.pickedPlayer),
                         WithoutPlayer(me.availablePlayers, me.pickedPlayer),
                         BoardAfterPick(me.boardState, MakePick(cur, me.pickedPlayer)))
           /\ IF me.writes = {k}
              THEN Finish(p, "success", cur.pickNumber, me.pickedPlayer)
              ELSE /\ proc' = [proc EXCEPT ![p].writes = @ \ {k}]
                   /\ outcome' = outcome
    /\ UNCHANGED <<nReq, nDev, probe, seeding>>

(* ---------------------------- specifications --------------------------- *)

\* The steps of a start request.
StartStep(p) ==
    \/ StartSeed(p)
    \/ EsCheck(p)
    \/ \E k \in {"rosters", "board"} : StartWrite(p, k)

\* The steps of an advance or pick request, but for recordPick's reads.
DraftStepButReads(p) ==
    \/ AdvBoard(p)
    \/ AdvRoster(p)
    \/ AdvPlayers(p)
    \/ RpFail(p)
    \/ RpShiftRead(p)
    \/ RpShiftWrite(p)
    \/ \E k \in {"roster", "players", "board"} : RpWrite(p, k)
    \/ PkBoard(p)
    \/ PkPlayers(p)
    \/ PkRoster(p)
    \/ \E k \in {"roster", "players", "board"} : PkWrite(p, k)

\* The steps of an advance or pick request.
DraftStep(p) ==
    \/ DraftStepButReads(p)
    \/ \E k \in {"board", "players"} : RpRead(p, k)

Step(p) == StartStep(p) \/ DraftStep(p)

\* A new request goes to the first idle handler.
FirstIdle(p) == proc[p].pc = "idle" /\ \A q \in Procs : q < p => proc[q].pc # "idle"

\* An advance or pick request arrives.
BeginDraft(p, seq) ==
    \/ \E c \in Choices : BeginAdvance(p, c, seq)
    \/ \E c \in Choices : BeginPick(p, c, seq)

Begin(p, seq) ==
    \/ \E h \in StartInputs : BeginStart(p, h, seq)
    \/ BeginDraft(p, seq)

\* Requests handled concurrently: any handler may take its next step.
Next ==
    \/ \E p \in Procs : (FirstIdle(p) /\ Begin(p, FALSE)) \/ Step(p)
    \/ SeedPlayersDone
    \/ SeedPlayersFail

Spec == Init /\ [][Next]_vars

OthersIdle(p) == \A q \in Procs \ {p} : proc[q].pc = "idle"

\* Requests handled one at a time: a handler steps only while every other
\* handler is idle.
SeqNext ==
    \/ \E p \in Procs : OthersIdle(p) /\ ((FirstIdle(p) /\ Begin(p, TRUE)) \/ Step(p))
    \/ SeedPlayersDone
    \/ SeedPlayersFail

SpecSeq == Init /\ [][SeqNext]_vars

\* Every step of SeqNext but recordPick's reads.
SeqNextButReads ==
    \/ \E p \in Procs :
          OthersIdle(p) /\ ((FirstIdle(p) /\ Begin(p, TRUE)) \/ StartStep(p)
                                \/ DraftStepButReads(p))
    \/ SeedPlayersDone
    \/ SeedPlayersFail

\* Requests handled one at a time and never ceasing: as long as a request can
\* arrive or a handler can take a step, one does. (A handler waiting for
\* recordPick's reads can always take one and has left them after two: that
\* it is not kept waiting forever is stated on the state it waits in.)
SpecLive ==
    /\ Init /\ [][SeqNext]_vars
    /\ WF_vars(SeqNextButReads)
    /\ []<>(\A p \in Procs : proc[p].pc # "rp_read")

\* Seed and start requests handled concurrently.
SeedNext ==
    \/ \E p \in Procs :
          \/ FirstIdle(p) /\ BeginSeed(p, FALSE)
          \/ FirstIdle(p) /\ \E h \in StartInputs : BeginStart(p, h, FALSE)
          \/ StartStep(p)
    \/ SeedPlayersDone
    \/ SeedPlayersFail

SpecSeed == Init /\ [][SeedNext]_vars

(* ----------------------- a draft already under way --------------------- *)

\* One pick committed on its own: the team on the clock takes the best
\* eligible player among those no advisor or human names later.
QuietPick(s) ==
    LET cur == s.board.currentPick
        t == cur.teamIndex
        id == fallbackPick(SelectSeq(s.players, LAMBDA x : x \notin NamedIds),
                           s.rosters[t])
        me == [IdleProc EXCEPT !.boardState = s.board, !.roster = s.rosters[t],
                               !.availablePlayers = s.players, !.pickedPlayer = id]
        shift == IF cur.isHuman THEN NoShift ELSE detectedShift(me, Found(s.players))
    IN  [board |-> BoardAfterPick(s.board, MakePick(cur, id)),
         players |-> WithoutPlayer(s.players, id),
         rosters |-> [s.rosters EXCEPT ![t] = WithPick(@, id)],
         shifts |-> IF shift = NoShift THEN s.shifts ELSE Append(s.shifts, shift)]

RECURSIVE QuietPicks(_, _)
QuietPicks(s, k) ==
    IF k = 0 \/ s.board.draftComplete THEN s ELSE QuietPicks(QuietPick(s), k - 1)

\* The stored state after the first k picks of a draft started with
\* humanTeamIndex h.
DraftAfter(h, k) ==
    QuietPicks([board |-> createInitialBoardState(h), players |-> SeededPlayers,
                rosters |-> [t \in Teams |-> createEmptyRoster(t)], shifts |-> <<>>], k)

\* The drafts (humanTeamIndex, picks committed) concurrent requests arrive in:
\* the last team of the order about to pick for the second time in a row,
\* and the last two picks of the draft.
MidPoints == {<<0, NUM_TEAMS>>, <<NUM_TEAMS - 1, TOTAL_PICKS - 2>>}

MidInit ==
    /\ \E m \in MidPoints :
          LET s == DraftAfter(m[1], m[2])
          IN  /\ kvBoard = Found(s.board)
              /\ kvPlayers = Found(s.players)
              /\ kvRosters = [t \in Teams |-> Found(s.rosters[t])]
              /\ kvShifts = IF s.shifts = <<>> THEN NoShifts ELSE Found(s.shifts)
    /\ proc = [p \in Procs |-> IdleProc]
    /\ outcome = [p \in Procs |-> NoOutcome]
    /\ draftNo = 1
    /\ nReq = 0
    /\ nDev = 0
    /\ probe = NoProbe
    /\ seeding = [NoSeeding EXCEPT !.started = 1]

\* Advance and pick requests handled concurrently in a draft already under
\* way.
MidNext == \E p \in Procs : (FirstIdle(p) /\ BeginDraft(p, FALSE)) \/ DraftStep(p)

SpecMid == MidInit /\ [][MidNext]_vars

\* The model's answers: no structured output (the fallback pick is taken, as
\* for an answer that names no eligible player), or the second-best QB.
StreamChoices == {-1, 5}

\* Streaming advances handled concurrently in a draft already under way.
StreamNext ==
    \E p \in Procs :
       \/ FirstIdle(p) /\ \E c \in StreamChoices : BeginStream(p, c, FALSE)
       \/ StreamStep(p)

SpecStream == MidInit /\ [][StreamNext]_vars

(* ------------------- the turn order as a pure function ----------------- *)

\* getSnakeDraftPick applied to two pick numbers of the draft.
SnakeInit ==
    /\ StoreInit
    /\ \E a \in 1..TOTAL_PICKS, b \in 1..TOTAL_PICKS :
          probe = [fn |-> "snake", p |-> a, q |-> b, done |-> FALSE,
                   rp |-> [round |-> 0, teamIndex |-> 0],
                   rq |-> [round |-> 0, teamIndex |-> 0]]

SnakeApply ==
    /\ probe.fn = "snake"
    /\ ~probe.done
    /\ probe' = [probe EXCEPT !.done = TRUE,
                              !.rp = getSnakeDraftPick(probe.p),
                              !.rq = getSnakeDraftPick(probe.q)]
    /\ UNCHANGED <<store, proc, outcome, nReq, nDev, seeding>>

SnakeNext == SnakeApply

SpecSnake == SnakeInit /\ [][SnakeNext]_vars

SnakeDone == probe.fn = "snake" /\ probe.done

(* --------------- the signal functions applied on their own ------------- *)

\* The player lists of at most maxLen players whose attributes are drawn from
\* the given sets; the i-th player has playerId i.
PoolsOver(positions, ranks, ages, maxLen) ==
    UNION {{[i \in 1..k |-> [playerId |-> i, position |-> f[i].position,
                             rank |-> f[i].rank, age |-> f[i].age,
                             tier |-> calculateTier(f[i].rank)]] :
               f \in [1..k -> [position : positions, rank : ranks, age : ages]]} :
           k \in 0..maxLen}

\* A pick list in which i picks of position a are followed by j picks of
\* position b (only the positions matter to the signal functions).
RunOf(a, i, b, j) ==
    [k \in 1..(i + j) |-> [pickNumber |-> k, round |-> CeilDiv(k, NUM_TEAMS),
                           teamIndex |-> getSnakeDraftPick(k).teamIndex,
                           playerId |-> 100 + k,
                           position |-> IF k <= i THEN a ELSE b]]

(* detectValueDrops *)

DropsInit ==
    /\ StoreInit
    /\ \E pool \in PoolsOver({"WR"}, {5, 11, 12, 13}, {25}, MaxPool + 1),
          n \in {19, 20, 21} :
          probe = [fn |-> "drops", pool |-> pool, n |-> n, done |-> FALSE, out |-> <<>>]

DropsApply ==
    /\ probe.fn = "drops"
    /\ ~probe.done
    /\ probe' = [probe EXCEPT !.done = TRUE, !.out = detectValueDrops(probe.pool, probe.n)]
    /\ UNCHANGED <<store, proc, outcome, nReq, nDev, seeding>>

SpecDrops == DropsInit /\ [][DropsApply]_vars

(* analyzeBoardState *)

\* analyzeBoardState whose value-drop detection sorts the player array it is
\* handed, in place.
AnalyzeCallSortsInPlace(picks, availablePlayers, pickNumber) ==
    [out |-> analyzeBoardState(picks, availablePlayers, pickNumber),
     picks |-> picks,
     availablePlayers |->
        StableSortBy(availablePlayers,
                     [i \in 1..Len(availablePlayers) |-> availablePlayers[i].rank - pickNumber])]

\* One call of analyzeBoardState on the arrays picks and availablePlayers:
\* its result, and the arrays as the call leaves them.
AnalyzeCall(picks, availablePlayers, pickNumber) ==
    [out |-> analyzeBoardState(picks, availablePlayers, pickNumber),
     picks |-> picks,
     availablePlayers |-> availablePlayers]

AnalyzeInit ==
    /\ StoreInit
    /\ \E pool \in PoolsOver({"QB", "TE"}, {5, 12}, {25}, MaxPool + 1),
          a \in {"QB", "RB"}, b \in {"RB", "WR"}, i \in 0..MaxRun, j \in 0..MaxRun :
          probe = [fn |-> "analyze", picks0 |-> RunOf(a, i, b, j), pool0 |-> pool,
                   picks |-> RunOf(a, i, b, j), pool |-> pool, n |-> 20,
                   calls |-> 0, out |-> <<>>]

\* The next call gets the same arrays and the same pick number.
AnalyzeApply ==
    /\ probe.fn = "analyze"
    /\ probe.calls < 2
    /\ LET r == AnalyzeCall(probe.picks, probe.pool, probe.n)
       IN  probe' = [probe EXCEPT !.calls = @ + 1, !.out = Append(@, r.out),
                                  !.picks = r.picks, !.pool = r.availablePlayers]
    /\ UNCHANGED <<store, proc, outcome, nReq, nDev, seeding>>

SpecAnalyze == AnalyzeInit /\ [][AnalyzeApply]_vars

(* detectPersonaShift *)

\* A slot holding a player (which one does not matter to eligibility).
SomePlayer == 1

RosterWith(filled) ==
    [teamIndex |-> 0,
     qb |-> IF "qb" \in filled THEN SomePlayer ELSE NoPlayer,
     rb |-> IF "rb" \in filled THEN SomePlayer ELSE NoPlayer,
     wr |-> IF "wr" \in filled THEN SomePlayer ELSE NoPlayer,
     te |-> IF "te" \in filled THEN SomePlayer ELSE NoPlayer,
     superflex |-> IF "superflex" \in filled THEN SomePlayer ELSE NoPlayer]

\* An empty roster, one that can take no QB, and one that can take a TE only.
ShiftRosters ==
    {RosterWith({}), RosterWith({"qb", "superflex"}),
     RosterWith({"qb", "rb", "wr", "superflex"})}

\* The registered personas, the human sentinel and a name with no rule.
ShiftPersonas == RegisteredPersonas \cup {"human", "drafter-unknown"}

\* The pick of the c-th player of the list; c = 0: a player not in the list.
ShiftPick(pool, c, n) ==
    [pickNumber |-> n, round |-> CeilDiv(n, NUM_TEAMS),
     teamIndex |-> getSnakeDraftPick(n).teamIndex,
     playerId |-> IF c = 0 THEN 99 ELSE pool[c].playerId,
     position |-> IF c = 0 THEN "WR" ELSE pool[c].position]

ShiftInit ==
    /\ StoreInit
    /\ \E persona \in ShiftPersonas, roster \in ShiftRosters,
          pool \in PoolsOver({"QB", "RB", "TE"}, {5, 30}, {25, 30}, MaxPool),
          n \in {4, 20, 36}, a \in {"QB", "TE"}, i \in {0, MaxRun - 1, MaxRun} :
          \E c \in 0..Len(pool) :
             probe = [fn |-> "shift", persona |-> persona, roster |-> roster,
                      pool |-> pool, picks |-> RunOf(a, i, a, 0),
                      pick |-> ShiftPick(pool, c, n), inPool |-> (c > 0),
                      done |-> FALSE, direct |-> NoShift, recorded |-> NoShift,
                      restricted |-> NoShift]

\* detectPersonaShift called directly, as recordPick calls it, and with the
\* shift context of the roster.
ShiftApply ==
    /\ probe.fn = "shift"
    /\ ~probe.done
    /\ LET analysis == analyzeBoardState(probe.picks, probe.pool, probe.pick.pickNumber)
       IN  probe' = [probe EXCEPT
                !.done = TRUE,
                !.direct = detectPersonaShift(probe.persona, probe.pick, analysis,
                                              probe.pool, NoContext),
                !.recorded = shiftDetection(probe.persona, probe.pick, analysis,
                                            probe.pool, probe.roster),
                !.restricted = detectPersonaShift(probe.persona, probe.pick, analysis,
                                   probe.pool,
                                   buildShiftEvaluationContext(probe.roster, probe.pool))]
    /\ UNCHANGED <<store, proc, outcome, nReq, nDev, seeding>>

SpecShift == ShiftInit /\ [][ShiftApply]_vars

(* ---------------------------- scouting notes --------------------------- *)

\* The scouting notes of one team (key team-<teamIndex>), written by the
\* drafter's writeScoutingNote tool and by recordPick when it detects a
\* shift. A note is a record [type, stamp]; stamp stands for the timestamp
\* in its id. Both writers read the list, append and set the trimmed list.

MAX_NOTES_PER_TEAM == 10

\* The notes written in one run.
MaxNoteWrites == 12

NoteWriters == {1, 2}

NoNotes == [exists |-> FALSE, data |-> <<>>]

IdleWriter == [pc |-> "idle", notes |-> <<>>]

\* A truncation that keeps the oldest notes.
trimmedOldest(notes) ==
    IF Len(notes) > MAX_NOTES_PER_TEAM
    THEN SubSeq(notes, 1, MAX_NOTES_PER_TEAM)
    ELSE notes

\* writeScoutingNote: notes.slice(notes.length - MAX_NOTES_PER_TEAM) when the
\* list is longer than MAX_NOTES_PER_TEAM.
trimmed(notes) ==
    IF Len(notes) > MAX_NOTES_PER_TEAM
    THEN SubSeq(notes, Len(notes) - MAX_NOTES_PER_TEAM + 1, Len(notes))
    ELSE notes

\* recordPick: the same truncation of the list with the shift note appended.
trimmedNotes(nextNotes) ==
    IF Len(nextNotes) > MAX_NOTES_PER_TEAM
    THEN SubSeq(nextNotes, Len(nextNotes) - MAX_NOTES_PER_TEAM + 1, Len(nextNotes))
    ELSE nextNotes

NotesInit ==
    /\ StoreInit
    /\ probe = [fn |-> "notes", stored |-> NoNotes, written |-> <<>>,
                w |-> [i \in NoteWriters |-> IdleWriter]]

\* A writer's call begins while no other call is running.
NoteCallBegins(i, pc) ==
    /\ probe.fn = "notes"
    /\ \A j \in NoteWriters : probe.w[j].pc = "idle"
    /\ Len(probe.written) < MaxNoteWrites
    /\ probe' = [probe EXCEPT !.w[i].pc = pc]
    /\ UNCHANGED <<store, proc, outcome, nReq, nDev, seeding>>

\* The writer reads the team's list (an empty one if none is stored).
NoteGet(i, from, to) ==
    /\ probe.fn = "notes"
    /\ probe.w[i].pc = from
    /\ probe' = [probe EXCEPT !.w[i] = [pc |-> to,
                                        notes |-> IF probe.stored.exists
                                                  THEN probe.stored.data ELSE <<>>]]
    /\ UNCHANGED <<store, proc, outcome, nReq, nDev, seeding>>

\* The writer sets the list it built from its read.
NoteSet(i, from, note, list) ==
    /\ probe.fn = "notes"
    /\ probe.w[i].pc = from
    /\ probe' = [probe EXCEPT !.w[i] = IdleWriter,
                              !.stored = Found(list),
                              !.written = Append(@, note)]
    /\ UNCHANGED <<store, proc, outcome, nReq, nDev, seeding>>

\* writeScoutingNote.execute: kv.get, push the new note, truncate, kv.set.
WsnBegin(i) == NoteCallBegins(i, "wsn_get")

WsnGet(i) == NoteGet(i, "wsn_get", "wsn_set")

WsnSet(i) ==
    LET newNote == [type |-> "general", stamp |-> Len(probe.written) + 1]
    IN  NoteSet(i, "wsn_set", newNote, trimmed(Append(probe.w[i].notes, newNote)))

\* recordPick with a detected shift: the team's notes are read, the shift
\* note is appended, the list truncated and set.
ShiftNoteBegin(i) == NoteCallBegins(i, "sn_get")

ShiftNoteGet(i) == NoteGet(i, "sn_get", "sn_set")

ShiftNoteSet(i) ==
    LET shiftNote == [type |-> "shift", stamp |-> Len(probe.written) + 1]
    IN  NoteSet(i, "sn_set", shiftNote, trimmedNotes(Append(probe.w[i].notes, shiftNote)))

\* Note writes of one team, one call after another.
NotesNext ==
    \E i \in NoteWriters :
       \/ WsnBegin(i)
       \/ WsnGet(i)
       \/ WsnSet(i)
       \/ ShiftNoteBegin(i)
       \/ ShiftNoteGet(i)
       \/ ShiftNoteSet(i)

SpecNotes == NotesInit /\ [][NotesNext]_vars

(* ------------------------------ properties ----------------------------- *)

AllIdle == \A p \in Procs : proc[p].pc = "idle"

Committed(p, op) == outcome[p].op = op /\ outcome[p].status = "success"

RosterSlotKeys == {"qb", "rb", "wr", "te", "superflex"}

\* The players a team's stored roster holds.
RosterPlayers(t) == {kvRosters[t].data[k] : k \in RosterSlotKeys} \ {NoPlayer}

\* The number of roster slots, over all teams, that hold the player.
SlotsHolding(id) ==
    Cardinality({<<t, k>> \in Teams \X RosterSlotKeys : kvRosters[t].data[k] = id})

PickedPlayers(picks) == {picks[i].playerId : i \in 1..Len(picks)}

IsPrefix(s, t) == Len(s) <= Len(t) /\ \A i \in 1..Len(s) : s[i] = t[i]

\* A step of a commit: one of the writes of recordPick or of the human pick.
CommitWrite ==
    \E p \in Procs, k \in {"roster", "players", "board"} : RpWrite(p, k) \/ PkWrite(p, k)

\* The first draft is under way and no further start request is in flight.
InFirstDraft == draftNo = 1 /\ \A p \in Procs : proc[p].op # "start"

\* C1: two commit attempts (recordPick) for the same turn cursor of the same
\* draft never both succeed: one succeeds and the other is rejected.
C1_OneSuccessPerCursor ==
    \A p \in Procs, q \in Procs :
        (/\ InFirstDraft
         /\ p # q
         /\ Committed(p, "advance")
         /\ Committed(q, "advance")
         /\ outcome[p].draftNo = outcome[q].draftNo)
        => outcome[p].pickNumber # outcome[q].pickNumber

\* C2: pool, roster, pick list and cursor change as one unit: in every store
\* state the players on rosters are exactly the players of the pick list,
\* none of them is in the pool, and the cursor stands one past the pick list
\* (or the draft is complete).
C2_CommitIsAtomic ==
    InFirstDraft =>
        LET board == kvBoard.data
            picked == PickedPlayers(board.picks)
        IN  /\ UNION {RosterPlayers(t) : t \in Teams} = picked
            /\ picked \cap SeqRange(kvPlayers.data) = {}
            /\ \/ board.draftComplete
               \/ board.currentPick.pickNumber = Len(board.picks) + 1

\* The effect on the store that a write of a successful recordPick must have.
RpWriteEffect(p, k) ==
    LET me == proc[p]
        id == me.pickedPlayer
        t == me.latestBoard.data.currentPick.teamIndex
        old == kvRosters[t].data
        new == kvRosters'[t].data
        cur == kvBoard.data.currentPick
    IN  /\ k = "players" =>
              /\ id \in SeqRange(kvPlayers.data)
              /\ kvPlayers'.data = WithoutPlayer(kvPlayers.data, id)
        /\ k = "board" =>
              /\ Len(kvBoard'.data.picks) = Len(kvBoard.data.picks) + 1
              /\ IsPrefix(kvBoard.data.picks, kvBoard'.data.picks)
              /\ IF cur.pickNumber = TOTAL_PICKS
                 THEN kvBoard'.data.draftComplete
                 ELSE kvBoard'.data.currentPick.pickNumber = cur.pickNumber + 1
        /\ k = "roster" =>
              /\ \E s \in RosterSlotKeys :
                    /\ old[s] = NoPlayer
                    /\ new[s] = id
                    /\ \A r \in RosterSlotKeys \ {s} : new[r] = old[r]
              /\ \A u \in Teams \ {t} : kvRosters'[u] = kvRosters[u]

\* C3: every successful recordPick removes exactly the picked item from the
\* stored pool, appends exactly one pick record, fills exactly one empty slot
\* of the on-clock team's roster and advances the cursor by one (or marks
\* the draft complete).
C3_CommitEffect ==
    [][\A p \in Procs, k \in {"roster", "players", "board"} :
          (InFirstDraft /\ RpWrite(p, k)) => RpWriteEffect(p, k)]_vars

\* C4: once a draft has started, every catalog item is either in the stored
\* pool or in exactly one roster slot, never both and never two.
C4_PoolXorOneRoster ==
    InFirstDraft =>
        \A id \in PlayerIds :
            IF id \in SeqRange(kvPlayers.data) THEN SlotsHolding(id) = 0
            ELSE SlotsHolding(id) = 1

\* C5: a dedicated slot holds only items of its own category, and within a
\* draft a filled slot is never overwritten with a different item.
C5_SlotsNeverOverwritten ==
    [][/\ \A t \in Teams, pos \in PositionSet :
             LET id == kvRosters'[t].data[slotKeyOf(pos)]
             IN  id # NoPlayer => PlayerPosition(id) = pos
       /\ InFirstDraft =>
             \A t \in Teams, s \in RosterSlotKeys :
                 kvRosters[t].data[s] # NoPlayer
                     => kvRosters'[t].data[s] = kvRosters[t].data[s]]_vars

\* C6: every store transition caused by a commit leaves the old pick list a
\* prefix of the new one.
C6_PickListAppendOnly ==
    [][(InFirstDraft /\ CommitWrite) => IsPrefix(kvBoard.data.picks, kvBoard'.data.picks)]_vars

\* C7: within a draft the stored cursor's pick number never decreases, stays
\* within 1..TOTAL_PICKS and changes only by +1.
C7_CursorMonotonic ==
    [][InFirstDraft =>
          LET old == kvBoard.data.currentPick.pickNumber
              new == kvBoard'.data.currentPick.pickNumber
          IN  /\ new \in 1..TOTAL_PICKS
              /\ new = old \/ new = old + 1]_vars

\* C8: after any sequence of start, advance and pick requests handled one at
\* a time, the draft is complete exactly when TOTAL_PICKS pick records have
\* been committed.
C8_CompleteIffAllPicks ==
    (AllIdle /\ kvBoard.exists) =>
        (kvBoard.data.draftComplete <=> Len(kvBoard.data.picks) = TOTAL_PICKS)

C8_Witness ==
    /\ AllIdle
    /\ kvBoard.exists
    /\ kvBoard.data.draftComplete
    /\ Len(kvBoard.data.picks) = NUM_TEAMS * NUM_ROUNDS
    /\ \E p \in Procs : outcome[p].status = "success"

\* C9: over the pick numbers 1..TOTAL_PICKS getSnakeDraftPick is a bijection
\* onto the (round, participant) pairs; an odd round visits the participants
\* in ascending order, an even round in descending order.
C9_SnakeBijection ==
    SnakeDone =>
        LET p == probe.p
            q == probe.q
            rp == probe.rp
            rq == probe.rq
        IN  /\ rp.round \in 1..NUM_ROUNDS
            /\ rp.teamIndex \in Teams
            /\ (rp = rq) => (p = q)
            /\ p < q => rp.round <= rq.round
            /\ (p < q /\ rp.round = rq.round) =>
                  IF rp.round % 2 = 1 THEN rp.teamIndex < rq.teamIndex
                  ELSE rp.teamIndex > rq.teamIndex
            /\ Cardinality((1..NUM_ROUNDS) \X Teams) = TOTAL_PICKS

C9_Witness ==
    /\ SnakeDone
    /\ probe.p = NUM_TEAMS + 1
    /\ probe.q = NUM_TEAMS + 2
    /\ probe.rp = [round |-> 2, teamIndex |-> NUM_TEAMS - 1]
    /\ probe.rq = [round |-> 2, teamIndex |-> NUM_TEAMS - 2]

\* C10: the draft has 12 participants and 5 rounds, 60 picks in all, and
\* pick 13 maps to round 2, participant 11.
C10_TwelveTeamScenario ==
    (SnakeDone /\ probe.p = 13) =>
        /\ NUM_TEAMS = 12
        /\ NUM_ROUNDS = 5
        /\ TOTAL_PICKS = 60
        /\ probe.rp = [round |-> 2, teamIndex |-> 11]

\* C11: along the commits of one draft, canDraftPosition(roster, c) is true
\* exactly while the dedicated slot for c or the SUPERFLEX slot is empty, and
\* once it is false for a team's stored roster it stays false.
C11_AcceptUntilFull ==
    [][\A t \in Teams, pos \in PositionSet :
          LET old == kvRosters[t].data
              new == kvRosters'[t].data
          IN  /\ canDraftPosition(new, pos)
                    <=> (new[slotKeyOf(pos)] = NoPlayer \/ new.superflex = NoPlayer)
              /\ (InFirstDraft /\ ~canDraftPosition(old, pos))
                    => ~canDraftPosition(new, pos)]_vars

\* recordPick decides: the last of its reads of the latest state completes.
RpDecides(p) == \E k \in {"board", "players"} : RpRead(p, k) /\ proc[p].reads = {k}

\* The roster of the team the handler's proposal is for, as stored.
FreshRoster(p) == kvRosters[proc[p].boardState.currentPick.teamIndex].data

\* C12: recordPick decides slot eligibility against the roster as stored at
\* that time: when the stored roster of the team on the clock cannot accept
\* the picked player's position, the commit is rejected and nothing is
\* written.
C12_FreshRosterDecides ==
    [][\A p \in Procs :
          (/\ InFirstDraft
           /\ RpDecides(p)
           /\ ~canDraftPosition(FreshRoster(p), PlayerPosition(proc[p].pickedPlayer)))
          => (/\ proc'[p].pc = "rp_fail"
              /\ UNCHANGED store)]_vars

\* The board and the player list as recordPick has read them when it decides.
LatestBoardRead(p) == IF "board" \in proc[p].reads THEN kvBoard ELSE proc[p].latestBoard

LatestPlayersRead(p) ==
    IF "players" \in proc[p].reads THEN kvPlayers ELSE proc[p].latestPlayers

\* The cursor the proposal was computed for differs from the cursor read.
CursorDiffers(p) ==
    LET expected == proc[p].boardState.currentPick
        latest == LatestBoardRead(p).data.currentPick
    IN  latest.pickNumber # expected.pickNumber \/ latest.teamIndex # expected.teamIndex

Rejected(p, status) == proc[p].pc = "rp_fail" /\ proc[p].result.status = status

\* A handler holding a failure result of recordPick returns it without a write.
ReturnsUnwritten(p, status) ==
    (Rejected(p, status) /\ proc'[p] # proc[p])
        => (UNCHANGED store /\ proc'[p].pc = "idle" /\ outcome'[p].status = status)

\* C13: a recordPick whose proposal was computed for a cursor other than the
\* one it reads from the store (the draft being under way) is rejected with
\* a conflict and writes nothing.
C13_ConflictRejected ==
    [][\A p \in Procs :
          /\ (/\ RpDecides(p)
               /\ LatestBoardRead(p).exists
               /\ ~LatestBoardRead(p).data.draftComplete
               /\ CursorDiffers(p))
              => (Rejected(p, "conflict")' /\ UNCHANGED store)
          /\ ReturnsUnwritten(p, "conflict")]_vars

C13_Witness ==
    \E p \in Procs :
        /\ outcome[p].op = "advance"
        /\ outcome[p].status = "conflict"
        /\ kvBoard.data.currentPick.pickNumber > outcome[p].pickNumber

\* C14: a recordPick for a player who is not in the player list it reads from
\* the store is rejected as no longer available and writes nothing, although
\* the player is in the list the caller handed in.
C14_UnavailableRejected ==
    [][\A p \in Procs :
          /\ (/\ RpDecides(p)
               /\ LatestBoardRead(p).exists
               /\ ~LatestBoardRead(p).data.draftComplete
               /\ ~CursorDiffers(p)
               /\ LatestPlayersRead(p).exists
               /\ proc[p].pickedPlayer \notin SeqRange(LatestPlayersRead(p).data))
              => (Rejected(p, "unavailable")' /\ UNCHANGED store)
          /\ ReturnsUnwritten(p, "unavailable")]_vars

C14_Witness ==
    \E p \in Procs :
        /\ Rejected(p, "unavailable")
        /\ proc[p].pickedPlayer \in SeqRange(proc[p].availablePlayers)
        /\ proc[p].pickedPlayer \notin SeqRange(kvPlayers.data)

\* C15: once the stored draft is complete it stays complete for the rest of
\* the draft, every attempt that reads it is rejected as already complete
\* and changes nothing, and the pick list never exceeds TOTAL_PICKS records.
C15_TerminalIsFinal ==
    [][/\ Len(kvBoard'.data.picks) <= TOTAL_PICKS
       /\ (InFirstDraft /\ kvBoard.data.draftComplete)
              => kvBoard'.data.draftComplete
       /\ \A p \in Procs :
              /\ ((AdvBoard(p) \/ PkBoard(p)) /\ kvBoard.exists /\ kvBoard.data.draftComplete)
                     => (outcome'[p].status = "complete" /\ UNCHANGED store)
              /\ (/\ RpDecides(p)
                   /\ LatestBoardRead(p).exists
                   /\ LatestBoardRead(p).data.draftComplete)
                     => (Rejected(p, "complete")' /\ UNCHANGED store)
              /\ ReturnsUnwritten(p, "complete")]_vars

\* C16: every failure result of recordPick carries the board state, the
\* player list and the roster as the store holds them during that call.
C16_FailureCarriesFreshState ==
    [][\A p \in Procs :
          (InFirstDraft /\ RpDecides(p) /\ proc'[p].pc = "rp_fail")
          => LET r == proc'[p].result
             IN  /\ LatestBoardRead(p).exists => r.boardState = LatestBoardRead(p).data
                 /\ LatestPlayersRead(p).exists
                        => r.availablePlayers = LatestPlayersRead(p).data
                 /\ r.roster = FreshRoster(p)]_vars

\* C17: whatever the advisor names, an advance commits (recordPick passes its
\* checks) only a player who is in the stored player list and whose position
\* the stored roster of the team on the clock can accept.
C17_AdvisorNeverTrusted ==
    [][\A p \in Procs :
          (/\ InFirstDraft
           /\ proc[p].op = "advance"
           /\ RpDecides(p)
           /\ proc'[p].pc = "rp_write")
          => (/\ proc[p].pickedPlayer \in SeqRange(kvPlayers.data)
              /\ canDraftPosition(FreshRoster(p), PlayerPosition(proc[p].pickedPlayer)))]_vars

\* C18: two human pick requests for the same turn of the same draft never
\* both succeed: one is committed and the other is rejected.
C18_OneHumanPickPerTurn ==
    \A p \in Procs, q \in Procs :
        (/\ InFirstDraft
         /\ p # q
         /\ Committed(p, "pick")
         /\ Committed(q, "pick")
         /\ outcome[p].draftNo = outcome[q].draftNo)
        => outcome[p].pickNumber # outcome[q].pickNumber

\* The step on which a start request returns success.
StartReturns(p) == proc[p].op = "start" /\ outcome'[p] # outcome[p]
                      /\ outcome'[p].status = "started"

\* C20: when a start returns success the stored pick list is empty, every
\* stored roster is empty, the cursor is at pick 1 and the stored player list
\* is the full seeded catalog.
C20_StartResetsEverything ==
    [][\A p \in Procs :
          StartReturns(p)
          => (/\ kvBoard'.data.picks = <<>>
              /\ kvBoard'.data.currentPick.pickNumber = 1
              /\ ~kvBoard'.data.draftComplete
              /\ \A t \in Teams : kvRosters'[t].data = createEmptyRoster(t)
              /\ kvPlayers'.data = SeededPlayers)]_vars

\* A handler's ensureSeeded call starts seedPlayers.
SeedStartedBy(p) == EsCheck(p) /\ seeding'.started = seeding.started + 1

\* C19: among ensureSeeded calls that overlap while the pool is unseeded,
\* seedPlayers is started at most once: a call starts it only if every earlier
\* seedPlayers call had settled before this call read the player list; and a
\* caller that awaits, awaits the seed in flight.
C19_OneSeedForConcurrentCalls ==
    [][\A p \in Procs :
          /\ SeedStartedBy(p) => proc[p].seedsDone = seeding.started
          /\ Awaiting(p)' => seeding'.promise = "inflight"]_vars

DropsDone == probe.fn = "drops" /\ probe.done

\* C30: detectValueDrops(pool, n) returns exactly the pool items with
\* n - rank >= 8, each once and with drop = n - rank, ordered by
\* non-increasing drop.
C30_ValueDropsExactAndSorted ==
    DropsDone =>
        LET pool == probe.pool
            out == probe.out
        IN  /\ \A i \in 1..Len(pool) :
                  Cardinality({k \in 1..Len(out) : out[k].player = pool[i]})
                    = IF probe.n - pool[i].rank >= 8 THEN 1 ELSE 0
            /\ \A k \in 1..Len(out) :
                  /\ \E i \in 1..Len(pool) : out[k].player = pool[i]
                  /\ out[k].adpDiff = probe.n - out[k].player.rank
            /\ \A k \in 1..(Len(out) - 1) : out[k].adpDiff >= out[k + 1].adpDiff

\* At pick 20 a rank-11 item stands before a rank-5 item in the pool; the
\* rank-5 item (drop 15) is returned before the rank-11 item (drop 9).
C30_Witness ==
    /\ DropsDone
    /\ probe.n = 20
    /\ Len(probe.pool) >= 2
    /\ probe.pool[1].rank = 11
    /\ probe.pool[2].rank = 5
    /\ Len(probe.out) >= 2
    /\ probe.out[1].player = probe.pool[2] /\ probe.out[1].adpDiff = 15
    /\ probe.out[2].player = probe.pool[1] /\ probe.out[2].adpDiff = 9

ShiftDone == probe.fn = "shift" /\ probe.done

\* C23: detectPersonaShift returns null for every persona name without a
\* registered rule (the sentinel 'human' included), whatever the pick, the
\* board analysis and the pool, with or without a shift context.
C23_UnregisteredNeverFlagged ==
    (ShiftDone /\ probe.persona \notin RegisteredPersonas) =>
        (probe.direct = NoShift /\ probe.restricted = NoShift)

\* The persona 'human' makes a pick that the balanced rule would flag (a
\* reach of 26 ranks) and is not flagged.
C23_Witness ==
    /\ ShiftDone
    /\ probe.persona = "human"
    /\ probe.inPool
    /\ probe.pick.pickNumber = 4
    /\ \E i \in 1..Len(probe.pool) :
          probe.pool[i].playerId = probe.pick.playerId /\ probe.pool[i].rank = 30
    /\ Cardinality(PositionsOf(probe.pool)) > 1
    /\ probe.direct = NoShift

\* The probe is a pick recordPick can be asked to commit: the player is in
\* the list, the roster can take the position, and the roster holds one
\* player per round already played.
FilledSlots(roster) == Cardinality({k \in RosterSlotKeys : roster[k] # NoPlayer})

RecordablePick ==
    /\ ShiftDone
    /\ probe.inPool
    /\ canDraftPosition(probe.roster, probe.pick.position)
    /\ FilledSlots(probe.roster) = probe.pick.round - 1

\* C21: if every pool item whose position the roster on the clock can accept
\* is of one single position, recordPick produces no strategy shift for the
\* pick, whatever the persona and the board, also when the pool holds items
\* of other positions that the roster cannot accept.
C21_ForcedPickNeverFlagged ==
    (RecordablePick
       /\ buildShiftEvaluationContext(probe.roster, probe.pool).forcedPosition # "none")
    => probe.recorded = NoShift

\* C22: the shift check of a commit looks only at signals and alternatives of
\* positions the roster on the clock can accept: whenever recordPick reports
\* a shift, the evaluation restricted to the acceptable positions reports one
\* too.
C22_IneligibleNeverCausesShift ==
    (RecordablePick /\ probe.recorded # NoShift) => probe.restricted # NoShift

\* No handler is inside recordPick.
NoRecordPickRunning ==
    \A p \in Procs : proc[p].pc \notin {"rp_read", "rp_fail", "rp_shift_read",
                                          "rp_shift_write", "rp_write"}

\* The shift record r is the record of a pick on the board.
MatchesCommittedPick(r) ==
    \E k \in 1..Len(kvBoard.data.picks) :
        /\ kvBoard.data.picks[k].pickNumber = r.pickNumber
        /\ kvBoard.data.picks[k].teamIndex = r.teamIndex
        /\ kvBoard.data.picks[k].playerId = r.playerPicked

\* C24: within a draft, whenever no recordPick call is running, the stored
\* strategy-shifts list holds at most one record per pick number and every
\* record is the record of a pick on the board.
C24_ShiftsMatchCommittedPicks ==
    (draftNo = 1 /\ NoRecordPickRunning)
        => /\ \A i, j \in 1..Len(kvShifts.data) :
                 kvShifts.data[i].pickNumber = kvShifts.data[j].pickNumber => i = j
           /\ \A i \in 1..Len(kvShifts.data) : MatchesCommittedPick(kvShifts.data[i])

\* C28: a start request whose humanTeamIndex is outside 0..NUM_TEAMS-1 is
\* answered as invalid in the step it arrives in, with the store, the seed
\* promise and every handler left as they were; no handler ever works on a
\* start with such an index.
C28_InvalidStartTouchesNothing ==
    [][/\ \A p \in Procs : proc'[p].op = "start" => proc'[p].input \in Teams
       /\ \A p \in Procs : \A h \in StartInputs \ Teams : \A seq \in BOOLEAN :
             BeginStart(p, h, seq)
                 => /\ UNCHANGED <<store, seeding, proc>>
                    /\ outcome'[p].op = "start"
                    /\ outcome'[p].status = "invalid"]_vars

\* An invalid start was answered while a draft was stored and another handler
\* was at work.
C28_Witness ==
    \E p \in Procs :
        /\ outcome[p].op = "start"
        /\ outcome[p].status = "invalid"
        /\ kvBoard.exists
        /\ \E q \in Procs : proc[q].pc # "idle"

\* The stored roster of team t has all five slots filled.
StoredRosterFull(t) == kvRosters[t].exists /\ FilledSlots(kvRosters[t].data) = 5

\* Handler p decides in this step to commit a pick: recordPick passes its
\* checks, or the human pick passes the roster check.
DecidesToCommit(p) ==
    \/ proc[p].pc = "rp_read" /\ proc'[p].pc \in {"rp_shift_read", "rp_write"}
    \/ proc[p].pc = "pk_roster" /\ proc'[p].pc = "pk_write"

\* C27: a stored roster with all five slots filled can take no position, and
\* no commit is decided for a team whose stored roster is full: the attempt
\* fails and writes nothing.
C27_FullRosterNeverCommits ==
    [][/\ \A t \in Teams : StoredRosterFull(t)
             => \A position \in PositionSet : ~canDraftPosition(kvRosters[t].data, position)
       /\ \A p \in Procs :
             DecidesToCommit(p)
                 => ~StoredRosterFull(proc[p].boardState.currentPick.teamIndex)]_vars

\* Handler p is an advance whose advisor call has failed.
AdvisorFailed(p) == proc[p].op = "advance" /\ proc[p].input = -1

\* C26: with requests handled one at a time, an advance whose advisor call
\* failed and whose pool holds a player the roster can accept hands the
\* lowest-ranked such player to recordPick, and ends in success with that
\* player committed at the reduced confidence; it never ends in a failure.
C26_AdvisorFailureFallsBack ==
    [][\A p \in Procs :
          LET t == proc[p].boardState.currentPick.teamIndex
              fb == fallbackPick(kvPlayers.data, proc[p].roster)
          IN  /\ (AdvisorFailed(p) /\ proc[p].pc = "adv_players" /\ proc'[p] # proc[p]
                    /\ kvPlayers.exists /\ fb # NoPlayer)
                     => /\ proc'[p].pc = "rp_read"
                        /\ proc'[p].pickedPlayer = fb
                        /\ \A i \in 1..Len(kvPlayers.data) :
                              canDraftPosition(proc[p].roster,
                                               PlayerPosition(kvPlayers.data[i]))
                                  => PlayerRank(fb) <= PlayerRank(kvPlayers.data[i])
              /\ (AdvisorFailed(p) /\ proc'[p].pc = "idle"
                    /\ proc[p].pc \in {"rp_read", "rp_fail", "rp_shift_read",
                                       "rp_shift_write", "rp_write"})
                     => /\ outcome'[p].status = "success"
                        /\ outcome'[p].playerId = proc[p].pickedPlayer
                        /\ outcome'[p].confidence = FALLBACK_CONFIDENCE
                        /\ outcome'[p].confidence < AdvisorConfidence
                        /\ kvBoard'.data.picks[Len(kvBoard'.data.picks)].playerId
                              = proc[p].pickedPlayer
                        /\ kvRosters'[t].data = WithPick(proc[p].roster, proc[p].pickedPlayer)]_vars

\* An advance whose advisor call failed has committed its fallback pick in the
\* last round of a draft, where the best player left did not fit the roster.
C26_Witness ==
    \E p \in Procs :
        /\ outcome[p].op = "advance"
        /\ outcome[p].status = "success"
        /\ outcome[p].confidence = FALLBACK_CONFIDENCE
        /\ outcome[p].playerId # NoPlayer
        /\ kvPlayers.exists
        /\ \E i \in 1..Len(kvPlayers.data) :
              PlayerRank(kvPlayers.data[i]) < PlayerRank(outcome[p].playerId)

\* The draft is complete with TOTAL_PICKS picks on the board.
Terminal ==
    /\ kvBoard.exists
    /\ kvBoard.data.draftComplete
    /\ Len(kvBoard.data.picks) = TOTAL_PICKS

\* No request is being handled and the stored pool holds no player the stored
\* roster of the team on the clock can accept.
Starved ==
    /\ \A p \in Procs : proc[p].pc = "idle"
    /\ OnClock
    /\ LET t == kvBoard.data.currentPick.teamIndex
           roster == IF kvRosters[t].exists THEN kvRosters[t].data
                     ELSE createEmptyRoster(t)
       IN  \/ ~kvPlayers.exists
           \/ \A i \in 1..Len(kvPlayers.data) :
                 ~canDraftPosition(roster, PlayerPosition(kvPlayers.data[i]))

\* C25: with requests handled one at a time and never ceasing, a draft that
\* is under way leads to the terminal state with TOTAL_PICKS picks on the
\* board, unless the pool runs out of players the roster on the clock can
\* accept; advisor calls may fail at every turn.
C25_DraftNeverStalls == (kvBoard.exists /\ ~Starved) ~> (Terminal \/ Starved)

\* A draft in which the advisor call failed at every turn and the human took
\* the best eligible player is complete with TOTAL_PICKS picks.
C25_Witness ==
    /\ Terminal
    /\ nDev = 0
    /\ \A k \in 1..TOTAL_PICKS : kvBoard.data.picks[k].pickNumber = k

\* The number of picks of the position among the last POSITION_RUN_WINDOW
\* picks of the probe's pick list.
RecentCount(position) ==
    Cardinality({k \in 1..Len(probe.picks0) :
                    /\ k > Len(probe.picks0) - POSITION_RUN_WINDOW
                    /\ probe.picks0[k].position = position})

\* C31: the position runs reported for a pick list name exactly the positions
\* with at least POSITION_RUN_MIN_COUNT picks among the last
\* POSITION_RUN_WINDOW picks, each once, with that count and the number of
\* picks looked at; an empty pick list gives no run.
C31_RunsOverLastWindow ==
    (probe.fn = "analyze" /\ probe.calls >= 1) =>
        LET runs == probe.out[1].positionRuns
            looked == IF Len(probe.picks0) < POSITION_RUN_WINDOW THEN Len(probe.picks0)
                      ELSE POSITION_RUN_WINDOW
        IN  /\ \A position \in PositionSet :
                  (\E r \in 1..Len(runs) : runs[r].position = position)
                      <=> RecentCount(position) >= POSITION_RUN_MIN_COUNT
            /\ \A r \in 1..Len(runs) :
                  /\ runs[r].count = RecentCount(runs[r].position)
                  /\ runs[r].window = looked
            /\ \A q, r \in 1..Len(runs) : runs[q].position = runs[r].position => q = r
            /\ Len(probe.picks0) = 0 => runs = <<>>

\* A pick list longer than the window, in which a position has a run inside
\* the window and more picks before it.
C31_Witness ==
    /\ probe.fn = "analyze"
    /\ probe.calls >= 1
    /\ Len(probe.picks0) > POSITION_RUN_WINDOW
    /\ \E r \in 1..Len(probe.out[1].positionRuns) :
          /\ probe.out[1].positionRuns[r].count = POSITION_RUN_MIN_COUNT
          /\ CountPosition(probe.picks0, probe.out[1].positionRuns[r].position)
                > POSITION_RUN_MIN_COUNT

KnownRosters == {kvRosters[t].data : t \in Teams} \cup {proc[p].roster : p \in Procs}

\* C33: assignRosterSlot names the position's own slot when that slot is
\* empty, otherwise SUPERFLEX when the superflex slot is empty, otherwise no
\* slot; and it names a slot exactly when canDraftPosition is true.
C33_SlotIffDraftable ==
    \A roster \in KnownRosters, position \in PositionSet :
        LET slot == assignRosterSlot(roster, position)
            dedicatedEmpty == roster[slotKeyOf(position)] = NoPlayer
            flexEmpty == roster.superflex = NoPlayer
        IN  /\ dedicatedEmpty => slot = position
            /\ (~dedicatedEmpty /\ flexEmpty) => slot = "SUPERFLEX"
            /\ (~dedicatedEmpty /\ ~flexEmpty) => slot = "none"
            /\ (slot # "none") <=> canDraftPosition(roster, position)

\* A handler is about to place a player in the superflex slot of a roster
\* whose slot for the position is taken, while another stored roster takes
\* no more players of some position.
C33_Witness ==
    /\ \E p \in Procs :
          /\ proc[p].pc = "rp_write"
          /\ proc[p].roster[slotKeyOf(PlayerPosition(proc[p].pickedPlayer))] # NoPlayer
          /\ updatedRoster(proc[p]).superflex = proc[p].pickedPlayer
    /\ \E t \in Teams, position \in PositionSet :
          assignRosterSlot(kvRosters[t].data, position) = "none"

\* The player list is stored and not empty.
PoolSeeded == kvPlayers.exists /\ Len(kvPlayers.data) > 0

\* The seed in flight settles in this step.
SeedSettles == seeding.promise = "inflight" /\ seeding'.promise = "none"

\* The handler's await of the seed ends in this step with the failure: its
\* request is over and answered with the error.
SeedFailsFor(q) ==
    /\ Awaiting(q)
    /\ proc'[q].pc = "idle"
    /\ outcome'[q].status = "seedfailed"

\* C39: when the seed in flight fails, every handler awaiting it gets the
\* failure and none is left waiting; no handler ever awaits a promise that
\* has settled, and a call that finds seedPromise empty starts a new
\* seedPlayers call; a call that begins with a stored, non-empty player list
\* is answered from it without touching seedPromise or calling seedPlayers.
C39_SeedFailureReachesEveryCaller ==
    [][/\ SeedSettles =>
             /\ \A q \in Procs : Awaiting(q) => ~Awaiting(q)'
             /\ (\E q \in Procs : SeedFailsFor(q))
                   => \A q \in Procs : Awaiting(q) => SeedFailsFor(q)
       /\ \A p \in Procs :
             /\ Awaiting(p)' => seeding'.promise = "inflight"
             /\ (proc[p].pc = "es_check" /\ seeding.promise = "none" /\ proc'[p] # proc[p])
                   => /\ seeding'.started = seeding.started + 1
                      /\ seeding'.promise = "inflight"
             /\ (proc[p].pc = "st_seed" /\ PoolSeeded /\ proc'[p] # proc[p])
                   => /\ seeding' = seeding
                      /\ kvPlayers' = kvPlayers
                      /\ proc'[p].pc \notin {"es_check", "es_wait"}
                      /\ proc[p].op = "seed" => outcome'[p].status = "cached"]_vars

\* Both handlers were failed by the one seed that may fail, and a later call
\* has started a second seedPlayers call, now in flight.
C39_Witness ==
    /\ \A q \in Procs : outcome[q].status = "seedfailed" \/ Awaiting(q)
    /\ \E q \in Procs : outcome[q].status = "seedfailed" /\ Awaiting(q)
    /\ seeding.started = 2
    /\ seeding.promise = "inflight"

\* A seed request was answered 'cached' after a seed had succeeded.
C39_WitnessCached ==
    /\ PoolSeeded
    /\ \E q \in Procs : outcome[q].op = "seed" /\ outcome[q].status = "cached"

\* The players of the pick records of a team.
PicksOfTeam(t) ==
    {kvBoard.data.picks[i].playerId :
       i \in {j \in 1..Len(kvBoard.data.picks) : kvBoard.data.picks[j].teamIndex = t}}

\* C35: in every state of a draft, whatever the interleaving of the commits,
\* the stored roster of every team holds exactly the players of the team's
\* pick records on the stored board.
C35_RostersAgreeWithPicks ==
    InFirstDraft => \A t \in Teams : RosterPlayers(t) = PicksOfTeam(t)

\* C36: in every state of a draft the stored board is consistent in itself:
\* the i-th pick record has pick number i and the round and team of
\* getSnakeDraftPick(i); while the draft is not complete the cursor's pick
\* number is the number of pick records plus one, its round and team are
\* those of getSnakeDraftPick for that number, and isHuman is true exactly
\* when the team is the human team of the board's settings.
C36_CursorMatchesPickList ==
    kvBoard.exists =>
        LET board == kvBoard.data
            cur == board.currentPick
        IN  /\ \A i \in 1..Len(board.picks) :
                  /\ board.picks[i].pickNumber = i
                  /\ board.picks[i].round = getSnakeDraftPick(i).round
                  /\ board.picks[i].teamIndex = getSnakeDraftPick(i).teamIndex
            /\ ~board.draftComplete =>
                  /\ cur.pickNumber = Len(board.picks) + 1
                  /\ cur.round = getSnakeDraftPick(cur.pickNumber).round
                  /\ cur.teamIndex = getSnakeDraftPick(cur.pickNumber).teamIndex
                  /\ cur.isHuman <=> (cur.teamIndex = board.settings.humanTeamIndex)

\* A commit of pick 9, the first of a descending round, has moved the cursor
\* to pick 10 of team 6, which is not the human's turn.
C36_Witness ==
    /\ kvBoard.exists
    /\ Len(kvBoard.data.picks) = NUM_TEAMS + 1
    /\ kvBoard.data.currentPick.teamIndex = NUM_TEAMS - 2
    /\ ~kvBoard.data.currentPick.isHuman
    /\ \E p \in Procs : outcome[p].status = "success" /\ outcome[p].pickNumber = NUM_TEAMS + 1

\* A commit of pick 39 has moved the cursor to pick 40, the human's turn.
C36_WitnessHuman ==
    /\ kvBoard.exists
    /\ ~kvBoard.data.draftComplete
    /\ kvBoard.data.currentPick.pickNumber = TOTAL_PICKS
    /\ kvBoard.data.currentPick.isHuman
    /\ \E p \in Procs : outcome[p].status = "success" /\ outcome[p].pickNumber = TOTAL_PICKS - 1

CommitKeys == {"roster", "players", "board"}

\* The stored cursor is the human's turn / an AI team's turn.
HumanOnClock == OnClock /\ kvBoard.data.currentPick.isHuman

AIOnClock == OnClock /\ ~kvBoard.data.currentPick.isHuman

\* The team of the pick record that the step appends to the stored board is
\* the human team of that board.
AppendsHumanPick ==
    LET board == kvBoard'.data
    IN  board.picks[Len(board.picks)].teamIndex = board.settings.humanTeamIndex

\* C37: an advance that reads the board on the human's turn, and a pick that
\* reads it on an AI team's turn, is answered as out of turn and writes
\* nothing; the writes of an advance's commit never begin while the stored
\* cursor is the human's turn, those of a pick's commit never while it is an
\* AI team's turn; and every pick record stored by an advance is of a team
\* other than the board's human team, every record stored by a pick is of
\* the human team.
C37_TurnGating ==
    [][\A p \in Procs :
          /\ (proc[p].pc = "adv_board" /\ HumanOnClock /\ proc'[p] # proc[p])
                => /\ outcome'[p].status = "wrongturn"
                   /\ proc'[p].pc = "idle"
                   /\ store' = store
          /\ (proc[p].pc = "pk_board" /\ AIOnClock /\ proc'[p] # proc[p])
                => /\ outcome'[p].status = "wrongturn"
                   /\ proc'[p].pc = "idle"
                   /\ store' = store
          /\ (proc[p].writes = CommitKeys /\ \E k \in CommitKeys : RpWrite(p, k))
                => AIOnClock
          /\ (proc[p].writes = CommitKeys /\ \E k \in CommitKeys : PkWrite(p, k))
                => HumanOnClock
          /\ RpWrite(p, "board") => ~AppendsHumanPick
          /\ PkWrite(p, "board") => AppendsHumanPick]_vars

\* The last n elements of a sequence (all of it if it is shorter).
LastOf(s, n) == IF Len(s) > n THEN SubSeq(s, Len(s) - n + 1, Len(s)) ELSE s

StreamOf(p) == outcome[p].events

CountEvent(events, e) == Cardinality({i \in 1..Len(events) : events[i] = e})

\* C38: a streaming advance sends 'pick' only in the step in which the last
\* of the three writes of its recordPick call lands, whichever branch chose
\* the player; a finished stream holds at most one 'pick', ends with 'pick'
\* followed by 'done' or with 'error', and holds no 'pick' when it ends with
\* 'error'.
C38_PickEventOnlyAfterCommit ==
    [][\A p \in Procs :
          /\ (CountEvent(StreamOf(p)', "pick") > 0 /\ outcome'[p] # outcome[p])
                => /\ proc[p].op = "stream"
                   /\ proc[p].pc = "rp_write"
                   /\ Cardinality(proc[p].writes) = 1
                   /\ \E k \in proc[p].writes : RpWrite(p, k)
                   /\ outcome'[p].status = "success"
          /\ (outcome'[p].op = "stream" /\ outcome'[p] # outcome[p])
                => LET ev == StreamOf(p)'
                       n == Len(ev)
                   IN  /\ n >= 1
                       /\ CountEvent(ev, "pick") <= 1
                       /\ \/ ev[n] = "error" /\ CountEvent(ev, "pick") = 0
                          \/ n >= 2 /\ ev[n] = "done" /\ ev[n - 1] = "pick"]_vars

\* One stream has ended with 'pick' and 'done' and another, which saw a
\* roster without open slots, with 'error' and no 'pick'.
C38_Witness ==
    \E p \in Procs, q \in Procs :
       /\ outcome[p].op = "stream"
       /\ outcome[p].status = "success"
       /\ CountEvent(StreamOf(p), "pick") = 1
       /\ outcome[q].op = "stream"
       /\ outcome[q].status = "exhausted"
       /\ StreamOf(q) = <<"metadata", "error">>

\* A stream whose recordPick was rejected (conflict, player gone) has ended
\* with 'error'.
C38_WitnessRejected ==
    \E p \in Procs :
       /\ outcome[p].op = "stream"
       /\ outcome[p].status \in {"conflict", "unavailable"}
       /\ StreamOf(p) = <<"metadata", "error">>

====
